---- MODULE Spec2Model ----
(***************************************************************************)
(* Model of the visual matching engines of identification_tester:          *)
(*   python/template_matching.py   TemplateMatchingEngine                  *)
(*   python/feature_matching.py    ORBFeatureMatchingEngine                *)
(*   python/yolo_orb_matching.py   YOLOORBMatchingEngine                   *)
(*                                                                         *)
(* Confidences, thresholds and correlation scores are integers in          *)
(* hundredths (0.8 is 80).  A scale factor is the exact fraction           *)
(* <<num, den>>.  The values OpenCV computes from pixels (score maps,      *)
(* keypoints, correspondences, homographies) are inputs chosen from small  *)
(* sets; everything the Python code does with them is computed as the code *)
(* computes it.                                                            *)
(***************************************************************************)
EXTENDS Integers, Sequences, FiniteSets, TLC

----------------------------------------------------------------------------
(* Bounds of the model *)

MaxDim == 2
MaxSteps == 3
MaxRetries == 3

----------------------------------------------------------------------------
(* Values shared by the engines *)

\* a configuration key that the caller's dictionary does not contain
Absent == -999

\* Python's None as the value of an optional result
None == [isNone |-> TRUE, raised |-> FALSE]

\* the outcome of a call that ends by raising an exception to its caller
Exc == [isNone |-> TRUE, raised |-> TRUE]

\* try: <body> except Exception: return None
ReturnNoneOnException(r) == IF r = Exc THEN None ELSE r

\* IEEE not-a-number: every ordering comparison with it is false
NaN == -100000

\* config.get(key, default) on a numeric key
Get(v, default) == IF v = Absent THEN default ELSE v

Max(a, b) == IF a >= b THEN a ELSE b

Min(a, b) == IF a <= b THEN a ELSE b

\* a >= b on floats, false when a is NaN
GE(a, b) == a # NaN /\ a >= b

\* a > b on floats, false when a is NaN
GT(a, b) == a # NaN /\ a > b

----------------------------------------------------------------------------
(* TemplateMatchingEngine *)

NormedMethods == {"TM_CCOEFF_NORMED", "TM_CCORR_NORMED", "TM_SQDIFF_NORMED"}

MethodNames == NormedMethods \cup {"TM_CCOEFF", "TM_CCORR", "TM_SQDIFF"}

SqdiffMethods == {"TM_SQDIFF", "TM_SQDIFF_NORMED"}

\* self.matching_methods.get(method_name, cv2.TM_CCOEFF_NORMED)
LookupMethod(method_name) ==
    IF method_name \in MethodNames THEN method_name ELSE "TM_CCOEFF_NORMED"

\* self.default_config
default_config ==
    [method |-> "TM_CCOEFF_NORMED", threshold |-> 80, max_retries |-> 3,
     retry_delay |-> 100, scale_range |-> <<80, 120>>, scale_steps |-> 5]

\* np.linspace(scale_range[0], scale_range[1], scale_steps)[k] as the exact
\* fraction <<num, den>>, for scale_steps > 1
Linspace(scale_range, scale_steps, k) ==
    << scale_range[1] * (scale_steps - 1) + k * (scale_range[2] - scale_range[1]),
       100 * (scale_steps - 1) >>

\* cvRound(n / d) for n >= 0, d > 0: round to nearest, ties to even
CvRound(n, d) ==
    LET q == n \div d
        r == n % d
    IN  IF 2 * r < d THEN q
        ELSE IF 2 * r > d THEN q + 1
        ELSE IF q % 2 = 0 THEN q ELSE q + 1

\* the size cv2.resize(template, None, fx=scale, fy=scale) produces for one side
ScaledSize(side, scale) == CvRound(side * scale[1], scale[2])

\* cv2.resize raises when the scale is not positive or a side rounds to zero
ResizeRaises(w, h, scale) ==
    \/ scale[1] <= 0
    \/ ScaledSize(w, scale) = 0
    \/ ScaledSize(h, scale) = 0

\* correlation scores cv2.matchTemplate can report, in hundredths
ScoreVals == {-20, 0, 60, 100}

\* squared differences are never negative
SqdiffVals == {0, 60, 100}

Locs(tw, th, sw, sh) == (0 .. (sw - tw)) \X (0 .. (sh - th))

CvError ==
    [raises |-> TRUE, min_val |-> 0, max_val |-> 0,
     min_loc |-> <<0, 0>>, max_loc |-> <<0, 0>>]

\* what cv2.matchTemplate followed by cv2.minMaxLoc (and np.max) yields for a
\* template of tw x th in a screenshot of sw x sh: the extreme values and
\* their places.  cv2.matchTemplate swaps image and template when the
\* template is at least as large on both sides, and raises when it is larger
\* on one side only; CvError is a cv2.error (also raised for mismatched
\* channel counts).  The values the code does not read for the method (the
\* minimum for the correlation metrics, the maximum for TM_SQDIFF_NORMED)
\* repeat the ones it reads.
CvOuts(method, tw, th, sw, sh) ==
    LET vals == IF method \in SqdiffMethods THEN SqdiffVals ELSE ScoreVals
        locs == IF tw <= sw /\ th <= sh THEN Locs(tw, th, sw, sh)
                ELSE IF tw >= sw /\ th >= sh THEN Locs(sw, sh, tw, th)
                ELSE {}
        his(lo) == IF method = "TM_SQDIFF" THEN {v \in vals : v >= lo} ELSE {lo}
    IN  UNION { { [raises |-> FALSE, min_val |-> lo, max_val |-> hi,
                   min_loc |-> l, max_loc |-> l] : hi \in his(lo), l \in locs } :
                lo \in vals }
        \cup {CvError}

\* the confidence _single_scale_match derives from the extreme values
MatchConfidence(method, cv) ==
    IF method \in SqdiffMethods
    THEN IF method = "TM_SQDIFF_NORMED"
         THEN 100 - cv.min_val
         ELSE IF cv.max_val = 0 THEN NaN
              ELSE 100 - ((100 * cv.min_val) \div cv.max_val)
    ELSE cv.max_val

MatchValue(method, cv) ==
    IF method \in SqdiffMethods THEN cv.min_val ELSE cv.max_val

MatchLoc(method, cv) ==
    IF method \in SqdiffMethods THEN cv.min_loc ELSE cv.max_loc

\* mutant of TemplateTooLarge: the width is not compared
TemplateTooLarge_HeightOnly(tw, th, sw, sh) == th > sh

\* whether the template is larger than the screenshot on either side
TemplateTooLarge(tw, th, sw, sh) == th > sh \/ tw > sw

\* mutant of Accepts: any computed confidence is accepted
Accepts_NoThreshold(conf, threshold) == conf # NaN

\* the acceptance test of _single_scale_match
Accepts(conf, threshold) == GE(conf, threshold)

\* _single_scale_match(template, screenshot, method, threshold)
SingleScaleMatch(tw, th, sw, sh, method, threshold, cv) ==
    ReturnNoneOnException(
        IF TemplateTooLarge(tw, th, sw, sh) THEN None
        ELSE IF cv.raises THEN Exc
        ELSE LET conf == MatchConfidence(method, cv)
                 match_loc == MatchLoc(method, cv)
             IN  IF Accepts(conf, threshold)
                 THEN [isNone |-> FALSE, raised |-> FALSE, method |-> "opencv",
                       left |-> match_loc[1], top |-> match_loc[2],
                       width |-> tw, height |-> th,
                       center_x |-> match_loc[1] + (tw \div 2),
                       center_y |-> match_loc[2] + (th \div 2),
                       confidence |-> conf,
                       match_value |-> MatchValue(method, cv),
                       scale |-> <<1, 1>>, region |-> <<>>]
                 ELSE None)

\* the outputs of OpenCV that _single_scale_match reads: none are computed
\* when the size check rejects the template
CvFor(method, tw, th, sw, sh) ==
    IF TemplateTooLarge(tw, th, sw, sh) THEN {CvError}
    ELSE CvOuts(method, tw, th, sw, sh)

\* the local variable confidence of _single_scale_match after the call:
\* Absent when the code did not get to compute it
ConfidenceOf(tw, th, sw, sh, method, cv) ==
    IF TemplateTooLarge(tw, th, sw, sh) \/ cv.raises THEN Absent
    ELSE MatchConfidence(method, cv)

\* config.get("scale_range") and config.get("scale_steps", 0) > 1
IsMultiScale(cfg) == cfg.scale_range # <<>> /\ Get(cfg.scale_steps, 0) > 1

\* mutant of AdjustRegion: the corner is shifted, the centre is not
AdjustRegion_CornerOnly(r, reg) ==
    IF r.isNone \/ reg = <<>> THEN r
    ELSE [r EXCEPT !.left = @ + reg[1], !.top = @ + reg[2], !.region = reg]

\* the coordinate shift _attempt_opencv_match applies for a capture region:
\* left, top, center_x and center_y are shifted by the origin of the region
AdjustRegion(r, reg) ==
    IF r.isNone \/ reg = <<>> THEN r
    ELSE [r EXCEPT !.left = @ + reg[1], !.top = @ + reg[2],
                   !.center_x = @ + reg[1], !.center_y = @ + reg[2],
                   !.region = reg]

\* the loop test of _multi_scale_match on the resized template
ScaledTooLarge(tw, th, sw, sh) == th > sh \/ tw > sw

\* result and result["confidence"] > best_confidence
Improves(r, best_conf) == ~r.isNone /\ GT(r.confidence, best_conf)

\* mutant of SleepsAfter: the loop also sleeps after its last attempt
SleepsAfter_Always(a, retries) == TRUE

\* whether the retry loop sleeps after a failed attempt
SleepsAfter(a, retries) == a < retries - 1

----------------------------------------------------------------------------
(* ORBFeatureMatchingEngine *)

\* Booleans of a configuration dictionary are 1 and 0 (Absent when missing)
Truthy(v) == v # 0 /\ v # Absent

\* the matcher_type of a configuration: "absent" when the key is missing
GetType(v, default) == IF v = "absent" THEN default ELSE v

\* a dictionary with none of the keys a caller can set; is_none marks the
\* argument None instead of a dictionary
EmptyConfig ==
    [is_none |-> FALSE, min_matches |-> Absent, max_retries |-> Absent, retry_delay |-> Absent,
     use_ratio_test |-> Absent, use_cross_check |-> Absent,
     matcher_type |-> "absent", orb_fallback |-> Absent,
     use_yolo_preprocessing |-> Absent, yolo_roi_expansion |-> Absent]

\* self.default_match_config of ORBFeatureMatchingEngine
default_match_config ==
    [EmptyConfig EXCEPT !.min_matches = 4, !.max_retries = 3,
                        !.retry_delay = 100, !.use_ratio_test = 0,
                        !.use_cross_check = 0]

\* d = defaults.copy(); d.update(cfg)
Update(defaults, cfg) ==
    [is_none |-> FALSE,
     min_matches |-> Get(cfg.min_matches, defaults.min_matches),
     max_retries |-> Get(cfg.max_retries, defaults.max_retries),
     retry_delay |-> Get(cfg.retry_delay, defaults.retry_delay),
     use_ratio_test |-> Get(cfg.use_ratio_test, defaults.use_ratio_test),
     use_cross_check |-> Get(cfg.use_cross_check, defaults.use_cross_check),
     matcher_type |-> GetType(cfg.matcher_type, defaults.matcher_type),
     orb_fallback |-> Get(cfg.orb_fallback, defaults.orb_fallback),
     use_yolo_preprocessing |->
         Get(cfg.use_yolo_preprocessing, defaults.use_yolo_preprocessing),
     yolo_roi_expansion |->
         Get(cfg.yolo_roi_expansion, defaults.yolo_roi_expansion)]

\* the correspondence strategy _attempt_orb_matching selects
Strategy(cfg) ==
    LET matcher_type == GetType(cfg.matcher_type, "BF")
        use_cross_check == Truthy(Get(cfg.use_cross_check, 1))
    IN  IF matcher_type \notin {"BF", "FLANN"} THEN "invalid"
        ELSE IF Truthy(Get(cfg.use_ratio_test, 1)) /\ matcher_type = "BF"
                /\ ~use_cross_check
        THEN "ratio_test"
        ELSE IF matcher_type = "FLANN" THEN "flann"
        ELSE IF use_cross_check THEN "cross_check"
        ELSE "plain"

\* whether the matcher create_matcher builds keeps only mutual nearest
\* neighbours: BFMatcher(NORM_HAMMING, crossCheck=cross_check); the FLANN
\* matcher takes no cross_check
CrossChecks(cfg) ==
    /\ GetType(cfg.matcher_type, "BF") = "BF"
    /\ Truthy(Get(cfg.use_cross_check, 1))

\* mutant of RatioTests: the ratio test whenever use_ratio_test is set
RatioTests_Always(cfg) ==
    /\ Truthy(Get(cfg.use_ratio_test, 1))
    /\ GetType(cfg.matcher_type, "BF") = "BF"

\* whether _attempt_orb_matching hands the matcher to _ratio_test_matching
RatioTests(cfg) ==
    /\ Truthy(Get(cfg.use_ratio_test, 1))
    /\ GetType(cfg.matcher_type, "BF") = "BF"
    /\ ~Truthy(Get(cfg.use_cross_check, 1))

\* the min(total_matches / 100, 1.0) term counts at most this many matches
MatchCap == 100

\* a confidence is the exact fraction <<num, den>>, den > 0
FracGT(a, b) == a[1] * b[2] > b[1] * a[2]

FracGE(a, b) == a[1] * b[2] >= b[1] * a[2]

\* mutant of FeatureConfidence: the match-count term is not capped at 1.0
FeatureConfidence_NoCap(total_matches, num_inliers) ==
    IF total_matches > 0
    THEN << 700 * num_inliers + 3 * total_matches * total_matches,
            1000 * total_matches >>
    ELSE <<0, 1>>

\* confidence = inlier_ratio * 0.7 + min(total_matches / 100, 1.0) * 0.3
FeatureConfidence(total_matches, num_inliers) ==
    IF total_matches > 0
    THEN << 700 * num_inliers + 3 * Min(total_matches, MatchCap) * total_matches,
            1000 * total_matches >>
    ELSE <<0, 1>>

\* mutant of CanLocalize: the inlier count is not tested
CanLocalize_AnyInliers(has_homography, num_inliers) == has_homography

\* the test that lets _analyze_matches project the template corners
CanLocalize(has_homography, num_inliers) == has_homography /\ num_inliers >= 4

\* the bounding_box and center_point dictionaries built from the projected
\* corners; NoBox is the value None of either key
NoBox == [present |-> FALSE]

\* mutant of BoundingBox: right and bottom are those of the top left corner
BoundingBox_Corner(b) ==
    [present |-> TRUE, left |-> b.min_x, top |-> b.min_y, right |-> b.min_x,
     bottom |-> b.min_y, width |-> b.max_x - b.min_x,
     height |-> b.max_y - b.min_y]

BoundingBox(b) ==
    [present |-> TRUE, left |-> b.min_x, top |-> b.min_y, right |-> b.max_x,
     bottom |-> b.max_y, width |-> b.max_x - b.min_x,
     height |-> b.max_y - b.min_y]

\* int(s / 2): the half of s, cut off towards zero
IntHalf(s) == IF s >= 0 THEN s \div 2 ELSE -((-s) \div 2)

\* mutant of CenterPoint: the centre is the top left corner of the box
CenterPoint_TopLeft(b) == [present |-> TRUE, x |-> b.min_x, y |-> b.min_y]

CenterPoint(b) ==
    [present |-> TRUE, x |-> IntHalf(b.min_x + b.max_x),
     y |-> IntHalf(b.min_y + b.max_y)]

\* mutant of HomographyErrorCaught: a cv2.error of cv2.findHomography leaves
\* _analyze_matches
HomographyErrorCaught_Never(hom) == FALSE

\* except cv2.error around cv2.findHomography: the outcomes it handles
HomographyErrorCaught(hom) == hom = "raises"

\* _analyze_matches(kp1, kp2, matches, ...): w holds what OpenCV computes,
\* w.n correspondences, w.hom the outcome of cv2.findHomography ("raises" a
\* cv2.error, "none" no matrix and no mask, "ok" a matrix and a mask with w.k
\* inliers), w.proj the outcome of cv2.perspectiveTransform, w.box the
\* envelope of the projected corners
AnalyzeMatches(w) ==
    LET total_matches == w.n
        estimated == total_matches >= 4 /\ w.hom = "ok"
        num_inliers == IF estimated THEN w.k ELSE 0
        localized == CanLocalize(estimated, num_inliers) /\ w.proj = "ok"
    IN  IF total_matches >= 4 /\ w.hom = "raises"
           /\ ~HomographyErrorCaught(w.hom)
        THEN Exc
        ELSE
        [isNone |-> FALSE, raised |-> FALSE, method |-> "ORB_features",
         num_matches |-> total_matches, num_inliers |-> num_inliers,
         confidence |-> FeatureConfidence(total_matches, num_inliers),
         homography |-> estimated,
         bounding_box |-> IF localized THEN BoundingBox(w.box) ELSE NoBox,
         center_point |-> IF localized THEN CenterPoint(w.box) ELSE NoBox,
         yolo_confidence |-> Absent]

\* mutant of TooFewMatches: the floor is the constant 4, not the configured one
TooFewMatches_Fixed(n, cfg) == n < 4

\* len(matches) < config.get("min_matches", 10)
TooFewMatches(n, cfg) == n < Get(cfg.min_matches, 10)

\* _attempt_orb_matching(template_image, target_image, config): w.des1 and
\* w.des2 are the descriptor counts (-1 when detectAndCompute gave None)
AttemptOrbMatching(w, cfg) ==
    ReturnNoneOnException(
        IF w.des1 = -1 \/ w.des2 = -1 THEN None
        ELSE IF w.des1 < 4 \/ w.des2 < 4 THEN None
        ELSE IF Strategy(cfg) = "invalid" THEN Exc
        ELSE IF TooFewMatches(w.n, cfg) THEN None
        ELSE AnalyzeMatches(w))

\* the retry loop of match_features from the given attempt on
RECURSIVE FeatureRetry(_, _, _, _)
FeatureRetry(w, cfg, a, sched) ==
    IF a >= Get(cfg.max_retries, 3)
    THEN [result |-> None, schedule |-> sched]
    ELSE LET r == AttemptOrbMatching(w, cfg)
             s1 == Append(sched, "attempt")
         IN  IF ~r.isNone
             THEN [result |-> r, schedule |-> s1]
             ELSE FeatureRetry(w, cfg, a + 1,
                               IF SleepsAfter(a, Get(cfg.max_retries, 3))
                               THEN Append(s1, "sleep") ELSE s1)

\* config = None
NoneConfig == [EmptyConfig EXCEPT !.is_none = TRUE]

\* if config is None: config = defaults.copy()
OrDefault(cfg, defaults) == IF cfg.is_none THEN defaults ELSE cfg

\* the configuration match_features works with: config (for None a copy of
\* the defaults) laid over a copy of the defaults
MatchConfig(cfg) ==
    Update(default_match_config, OrDefault(cfg, default_match_config))

\* match_features(template_image, target_image, config): the result and the
\* attempts and sleeps it took
MatchFeatures(w, cfg) == FeatureRetry(w, MatchConfig(cfg), 0, <<>>)

----------------------------------------------------------------------------
(* YOLOORBMatchingEngine *)

\* self.default_hybrid_config
default_hybrid_config ==
    [EmptyConfig EXCEPT !.use_yolo_preprocessing = 1,
                        !.yolo_roi_expansion = 10, !.orb_fallback = 1]

\* detect_objects_yolo(image, config): detection is still being developed,
\* the list returned is always empty
DetectObjectsYolo(cfg) == <<>>

\* hybrid_config = self.default_hybrid_config.copy(); hybrid_config.update(config)
HybridConfig(cfg) ==
    Update(default_hybrid_config, OrDefault(cfg, default_hybrid_config))

\* mutant of FallbackConfig: the engine's own default_orb_config (min_matches
\* 8, max_retries 2, ratio test on) is laid under the caller's configuration
FallbackConfig_OrbDefaults(cfg) ==
    Update([EmptyConfig EXCEPT !.min_matches = 8, !.max_retries = 2,
                               !.use_ratio_test = 1, !.use_cross_check = 0],
           HybridConfig(cfg))

\* the configuration the fallback hands to orb_matcher.match_features
FallbackConfig(cfg) == HybridConfig(cfg)

\* mutant of FallsBack: the fallback runs whatever orb_fallback says
FallsBack_Always(hybrid_config) == TRUE

\* if hybrid_config.get("orb_fallback", True)
FallsBack(hybrid_config) == Truthy(Get(hybrid_config.orb_fallback, 1))

\* the region of interest _match_in_roi cuts out of a target of img = <<w, h>>
\* for a detection: <<roi_x, roi_y, roi_w, roi_h>>
Roi(det, img, cfg) ==
    LET expansion == Get(cfg.yolo_roi_expansion, 10)
        expand_w == (det.width * expansion) \div 100
        expand_h == (det.height * expansion) \div 100
        roi_x == Max(0, det.x - expand_w)
        roi_y == Max(0, det.y - expand_h)
    IN  << roi_x, roi_y,
           Min(img[1] - roi_x, det.width + 2 * expand_w),
           Min(img[2] - roi_y, det.height + 2 * expand_h) >>

\* if "x" in roi_result: roi_result["x"] += roi_x, and the same for "y": the
\* dictionary _analyze_matches builds has neither key, its box and centre
\* are the nested bounding_box and center_point, so nothing is shifted
RemapToTarget(r, roi_x, roi_y) == r

\* _match_in_roi(template_image, target_image, detection, config): w is what
\* OpenCV computes for the template and the cropped region
MatchInRoi(det, img, w, cfg) ==
    ReturnNoneOnException(
        IF cfg.is_none THEN Exc
        ELSE LET roi == Roi(det, img, cfg)
                 roi_result == MatchFeatures(w, cfg).result
             IN  IF roi_result.isNone THEN None
                 ELSE [RemapToTarget(roi_result, roi[1], roi[2])
                          EXCEPT !.yolo_confidence = det.confidence,
                                 !.method = "YOLO+ORB"])

\* the loop of match_with_yolo_orb over the detections, from the i-th on;
\* rws[i] is what OpenCV computes in the region of dets[i]
RECURSIVE RoiLoop(_, _, _, _, _, _, _)
RoiLoop(dets, img, rws, cfg, i, best, best_conf) ==
    IF i > Len(dets) THEN best
    ELSE LET roi_result == MatchInRoi(dets[i], img, rws[i], cfg)
         IN  IF ~roi_result.isNone /\ FracGT(roi_result.confidence, best_conf)
             THEN RoiLoop(dets, img, rws, cfg, i + 1, roi_result,
                          roi_result.confidence)
             ELSE RoiLoop(dets, img, rws, cfg, i + 1, best, best_conf)

\* match_with_yolo_orb(template_image, target_image, config): w is what
\* OpenCV computes for the template and the whole target
MatchWithYoloOrb(w, rws, img, cfg) ==
    LET caller_config == OrDefault(cfg, default_hybrid_config)
        hybrid_config == HybridConfig(cfg)
        yolo_detections ==
            IF Truthy(Get(hybrid_config.use_yolo_preprocessing, 1))
            THEN DetectObjectsYolo(caller_config) ELSE <<>>
        best == IF yolo_detections # <<>>
                THEN RoiLoop(yolo_detections, img, rws, caller_config, 1,
                             None, <<0, 1>>)
                ELSE None
        orb_result == MatchFeatures(w, FallbackConfig(cfg))
        outcome ==
            IF ~best.isNone THEN [result |-> best, schedule |-> <<>>]
            ELSE IF FallsBack(hybrid_config)
            THEN [result |-> IF orb_result.result.isNone THEN None
                             ELSE [orb_result.result EXCEPT
                                      !.method = "YOLO+ORB_fallback"],
                  schedule |-> orb_result.schedule]
            ELSE [result |-> None, schedule |-> <<>>]
    IN  [result |-> ReturnNoneOnException(outcome.result),
         schedule |-> outcome.schedule]

\* mutant of KeepsRoiResult: a result as good as the best so far replaces it
KeepsRoiResult_AlsoEqual(dets, img, rws, cfg) ==
    LET RECURSIVE Loop(_, _, _)
        Loop(i, best, best_conf) ==
            IF i > Len(dets) THEN best
            ELSE LET roi_result == MatchInRoi(dets[i], img, rws[i], cfg)
                 IN  IF ~roi_result.isNone
                        /\ FracGE(roi_result.confidence, best_conf)
                     THEN Loop(i + 1, roi_result, roi_result.confidence)
                     ELSE Loop(i + 1, best, best_conf)
    IN  Loop(1, None, <<0, 1>>)

\* best_result after the loop of match_with_yolo_orb over yolo_detections,
\* begun with best_result = None and best_confidence = 0
KeepsRoiResult(dets, img, rws, cfg) ==
    RoiLoop(dets, img, rws, cfg, 1, None, <<0, 1>>)

\* match_with_yolo_orb from the detections on, for the list dets a detector
\* returned: the result of the best region, else the fallback
SearchDetections(dets, w, rws, img, cfg) ==
    LET caller_config == OrDefault(cfg, default_hybrid_config)
        hybrid_config == HybridConfig(cfg)
        yolo_detections ==
            IF Truthy(Get(hybrid_config.use_yolo_preprocessing, 1))
            THEN dets ELSE <<>>
        best == IF yolo_detections # <<>>
                THEN KeepsRoiResult(yolo_detections, img, rws, caller_config)
                ELSE None
        orb_result == MatchFeatures(w, FallbackConfig(cfg))
        outcome ==
            IF ~best.isNone THEN [result |-> best, schedule |-> <<>>]
            ELSE IF FallsBack(hybrid_config)
            THEN [result |-> IF orb_result.result.isNone THEN None
                             ELSE [orb_result.result EXCEPT
                                      !.method = "YOLO+ORB_fallback"],
                  schedule |-> orb_result.schedule]
            ELSE [result |-> None, schedule |-> <<>>]
    IN  [result |-> ReturnNoneOnException(outcome.result),
         schedule |-> outcome.schedule]

----------------------------------------------------------------------------
(* The state of a call into the feature and hybrid engines *)

VARIABLES
    f_pc,         \* idle, or done when a call has returned
    f_entry,      \* the method called
    f_config,     \* the config argument of the call
    f_world,      \* what OpenCV computes for the images of the call
    f_image,      \* the size <<w, h>> of the target image
    f_detection,  \* the detection argument of _match_in_roi
    f_result,     \* the value the call returned
    f_schedule    \* the attempts made and the time.sleep calls, in order

f_vars == <<f_pc, f_entry, f_config, f_world, f_image, f_detection, f_result,
            f_schedule>>

MaxFew == 5

MaxCoord == 1

\* numbers of correspondences: a few, and those around MatchCap
NVals == (0 .. MaxFew) \cup ((MatchCap - 1) .. (MatchCap + 1))

\* numbers of inliers among n correspondences
KVals(n) == { k \in 0 .. n : k <= MaxFew \/ k >= n - 1 }

\* envelopes of the projected template corners
Boxes ==
    { [min_x |-> x, max_x |-> x + 2, min_y |-> y, max_y |-> y + 3] :
        x \in 0 .. MaxCoord, y \in (-2) .. (MaxCoord - 1) }

\* the parts of a world the code never reads have these values
BlankWorld ==
    [des1 |-> -1, des2 |-> -1, n |-> 0, hom |-> "none", k |-> 0,
     proj |-> "raises", box |-> [min_x |-> 0, max_x |-> 0, min_y |-> 0, max_y |-> 0]]

\* the numbers of correspondences a strategy can give for des1 template
\* descriptors: plain nearest-neighbour matching gives one per descriptor,
\* cross-check, ratio test and FLANN any number up to that
MatchCounts(strategy, des1) ==
    IF strategy = "plain" THEN {des1}
    ELSE { n \in NVals : n <= des1 }

\* what OpenCV can compute in one attempt under a configuration
Worlds(cfg) ==
    LET unusable ==
            { [BlankWorld EXCEPT !.des1 = d1, !.des2 = d2] :
                d1 \in {-1, 3, 4}, d2 \in {-1, 3} }
        usable ==
            { [BlankWorld EXCEPT !.des1 = d1, !.des2 = 4] :
                d1 \in {4, MaxFew, MatchCap + 1} }
        matched ==
            IF Strategy(cfg) = "invalid" THEN usable
            ELSE UNION { { [u EXCEPT !.n = n] :
                             n \in MatchCounts(Strategy(cfg), u.des1) } :
                         u \in usable }
        estimated ==
            UNION { IF m.n < 4 THEN {m}
                    ELSE { [m EXCEPT !.hom = "raises"], m }
                         \cup { [m EXCEPT !.hom = "ok", !.k = k] : k \in KVals(m.n) } :
                    m \in matched }
        projected ==
            UNION { IF e.hom = "ok"
                    THEN {e} \cup { [e EXCEPT !.proj = "ok", !.box = b] : b \in Boxes }
                    ELSE {e} :
                    e \in estimated }
    IN  unusable \cup projected

\* the least number of correspondences n with 0.7 + 0.3 * n / 100 >= 0.9
SureCount == (2 * MatchCap) \div 3 + 1

\* numbers of descriptors of an image matched against itself
SameCounts == {3, 4, MaxFew, SureCount - 1, SureCount, MatchCap + 1}

\* what OpenCV computes when template and target are the same image of size
\* img: both have the same descriptors, every correspondence pairs a
\* keypoint with itself, and from 4 correspondences on the homography is the
\* identity with every correspondence an inlier, which projects the
\* template corners onto the corners of the image
SameImageWorlds(cfg, img) ==
    LET extracted ==
            { [BlankWorld EXCEPT !.des1 = d, !.des2 = d] : d \in SameCounts }
        matched ==
            IF Strategy(cfg) = "invalid" THEN extracted
            ELSE UNION { { [u EXCEPT !.n = n] :
                             n \in IF Strategy(cfg) = "plain" THEN {u.des1}
                                   ELSE { m \in SameCounts : m <= u.des1 } } :
                         u \in extracted }
    IN  { IF m.n < 4 THEN m
          ELSE [m EXCEPT !.hom = "ok", !.k = m.n, !.proj = "ok",
                         !.box = [min_x |-> 0, max_x |-> img[1],
                                  min_y |-> 0, max_y |-> img[2]]] :
          m \in matched }

\* configurations handed to match_features
FeatureConfigs ==
    [is_none : {FALSE},
     min_matches : {Absent, 0, MaxFew},
     max_retries : {Absent} \cup (0 .. MaxRetries),
     retry_delay : {Absent},
     use_ratio_test : {0, 1},
     use_cross_check : {0, 1},
     matcher_type : {"absent", "FLANN", "SIFT"},
     orb_fallback : {Absent},
     use_yolo_preprocessing : {Absent},
     yolo_roi_expansion : {Absent}]
    \cup {NoneConfig}

\* configurations handed to match_with_yolo_orb
HybridConfigs ==
    [is_none : {FALSE},
     min_matches : {Absent, 0, MaxFew},
     max_retries : {Absent, 1},
     retry_delay : {Absent},
     use_ratio_test : {0, 1},
     use_cross_check : {0, 1},
     matcher_type : {"absent"},
     orb_fallback : {Absent, 0, 1},
     use_yolo_preprocessing : {Absent, 0},
     yolo_roi_expansion : {Absent}]
    \cup {NoneConfig}

\* configurations handed to _match_in_roi
RoiConfigs ==
    [is_none : {FALSE},
     min_matches : {Absent, 0},
     max_retries : {Absent},
     retry_delay : {Absent},
     use_ratio_test : {0, 1},
     use_cross_check : {0},
     matcher_type : {"absent"},
     orb_fallback : {Absent},
     use_yolo_preprocessing : {Absent},
     yolo_roi_expansion : {Absent, 50}]

\* sizes of target images for the hybrid engine
TargetSize == <<8 + MaxCoord, 8>>

NoDetection == [x |-> 0, y |-> 0, width |-> 0, height |-> 0, confidence |-> 0]

\* detections handed to _match_in_roi
Detections ==
    { [x |-> x, y |-> y, width |-> 4, height |-> 2, confidence |-> c] :
        x \in {0, 1, 3 + MaxCoord}, y \in {0, 2}, c \in {50} }

FInit ==
    /\ f_pc = "idle"
    /\ f_entry = "none"
    /\ f_config = NoneConfig
    /\ f_world = BlankWorld
    /\ f_image = <<0, 0>>
    /\ f_detection = NoDetection
    /\ f_result = None
    /\ f_schedule = <<>>

----------------------------------------------------------------------------
(* The state of a call into TemplateMatchingEngine *)

VARIABLES
    pc,               \* where the call is: idle, attempt, match, multi, after, done
    entry,            \* the method called: find_template_on_screen or _match_template
    template,         \* what cv2.imread gave for template_path: [ok, w, h]
    screenshot,       \* the target image <<w, h>>, <<>> while there is none
    config,           \* the configuration dictionary in use
    region,           \* the capture region <<x, y, w, h>>, <<>> for None
    attempt,          \* the loop variable of find_template_on_screen
    schedule,         \* the attempts made and the time.sleep calls, in order
    scale_k,          \* the index of the next scale of _multi_scale_match
    best_result,      \* _multi_scale_match's best_result
    best_confidence,  \* _multi_scale_match's best_confidence
    confidence,       \* the confidence the last _single_scale_match computed
    result            \* the value the last call or attempt returned

tm_vars == <<pc, entry, template, screenshot, config, region, attempt,
             schedule, scale_k, best_result, best_confidence, confidence,
             result>>

NoTemplate == [ok |-> FALSE, w |-> 0, h |-> 0]

Dims == 1 .. MaxDim

Templates == [ok : {TRUE}, w : Dims, h : Dims]

\* configurations handed to _match_template by find_template_in_image
MatchConfigs ==
    [method : MethodNames \cup {"absent"},
     threshold : {Absent, 0, 60},
     max_retries : {Absent},
     retry_delay : {Absent},
     scale_range : {<<>>, <<50, 100>>},
     scale_steps : {Absent} \cup (1 .. MaxSteps)]
    \cup {default_config}

\* configurations handed to find_template_on_screen
ScreenConfigs ==
    [method : {"TM_CCOEFF_NORMED", "TM_SQDIFF"},
     threshold : {60},
     max_retries : {Absent} \cup (0 .. MaxRetries),
     retry_delay : {Absent, 0},
     scale_range : {<<>>, <<50, 100>>},
     scale_steps : {2}]
    \cup {default_config}

\* the size ImageGrab.grab() gives when no region is passed
ScreenSize == <<MaxDim, MaxDim>>

Regions == {<<>>} \cup { <<o[1], o[2], w, h>> : o \in {<<0, 0>>, <<3, 5>>}, w \in Dims, h \in Dims }

TMInit ==
    /\ pc = "idle"
    /\ entry = "none"
    /\ template = NoTemplate
    /\ screenshot = <<>>
    /\ config = default_config
    /\ region = <<>>
    /\ attempt = 0
    /\ schedule = <<>>
    /\ scale_k = 0
    /\ best_result = None
    /\ best_confidence = 0
    /\ confidence = Absent
    /\ result = None

----------------------------------------------------------------------------
(* The detectors: detect_objects_yolo of YOLOORBMatchingEngine and of
   PureYOLOMatchingEngine, and match_with_pure_yolo *)

MaxClock == 2

\* values of config["model_path"]: "absent" when config is None or has no
\* such key, the empty string, a string of blanks, and the path of a model
ModelPaths == {"absent", "", "  ", "yolov5.onnx"}

\* yolo_config.get("model_path", "") after default_yolo_config, whose
\* model_path is "", was laid under the config
ModelPathOf(model_path) == IF model_path = "absent" THEN "" ELSE model_path

\* str.strip()
Strip(str) == IF str = "  " THEN "" ELSE str

\* mutant of HasModel: the path is not stripped
HasModel_NoStrip(model_path) == ModelPathOf(model_path) # ""

\* if model_path and model_path.strip()
HasModel(model_path) ==
    ModelPathOf(model_path) # "" /\ Strip(ModelPathOf(model_path)) # ""

\* what a detection backend can find in an image
BackendDetections ==
    { [x |-> x, y |-> 0, width |-> 4, height |-> 2, confidence |-> c] :
        x \in 0 .. MaxCoord, c \in {50, 90} }

\* what _detect_with_real_yolo returns: it catches every exception and
\* returns [] then, so always a list
BackendLists ==
    {<<>>} \cup { <<a>> : a \in BackendDetections }
           \cup { <<a, b>> : a \in BackendDetections, b \in BackendDetections }

\* PureYOLOMatchingEngine.detect_objects_yolo(image, config)
PureDetectObjectsYolo(model_path, backend) ==
    IF HasModel(model_path) THEN backend ELSE <<>>

\* mutant of BestDetection: of the detections with the greatest confidence
\* the last is taken
RECURSIVE BestDetection_Last(_, _, _)
BestDetection_Last(detections, i, best) ==
    IF i > Len(detections) THEN best
    ELSE BestDetection_Last(detections, i + 1,
                            IF detections[i].confidence >= best.confidence
                            THEN detections[i] ELSE best)

\* max(detections, key=lambda x: x.get("confidence", 0)): the first of the
\* detections with the greatest confidence
RECURSIVE BestDetection(_, _, _)
BestDetection(detections, i, best) ==
    IF i > Len(detections) THEN best
    ELSE BestDetection(detections, i + 1,
                       IF detections[i].confidence > best.confidence
                       THEN detections[i] ELSE best)

\* the "match_time" of a result read from the clock at time now
MatchTime(now) == now

\* match_with_pure_yolo(template_image, target_image, config), the clock
\* reading now when the result is built
MatchWithPureYolo(model_path, backend, now) ==
    LET detections == PureDetectObjectsYolo(model_path, backend)
    IN  IF detections # <<>>
        THEN LET best_detection == BestDetection(detections, 2, detections[1])
             IN  [isNone |-> FALSE, raised |-> FALSE,
                  x |-> best_detection.x, y |-> best_detection.y,
                  width |-> best_detection.width,
                  height |-> best_detection.height,
                  confidence |-> best_detection.confidence,
                  method |-> "Pure_YOLO", match_time |-> MatchTime(now),
                  detection_count |-> Len(detections),
                  all_detections |-> detections]
        ELSE None

VARIABLES
    d_pc,          \* idle, or done when a call has returned
    d_entry,       \* the method called
    d_model_path,  \* the model_path of the config of the call
    d_backend,     \* what the detection backend finds in the image of the call
    d_result,      \* the value the call returned
    d_prev,        \* the call before this one: its arguments and its result
    clock          \* time.time()

d_vars == <<d_pc, d_entry, d_model_path, d_backend, d_result, d_prev, clock>>

NoCall == [entry |-> "none", model_path |-> "absent", backend |-> <<>>,
           result |-> None]

DInit ==
    /\ d_pc = "idle"
    /\ d_entry = "none"
    /\ d_model_path = "absent"
    /\ d_backend = <<>>
    /\ d_result = None
    /\ d_prev = NoCall
    /\ clock = 0

----------------------------------------------------------------------------
(* TemplateMatchingEngine.find_all_matches *)

MaxX == 2

MaxMatches == 2

\* the score map of cv2.matchTemplate has one value for each top-left
\* position of the template: x in 0 .. MaxX, in the two rows y = 0 and y = 2
NPos == 2 * (MaxX + 1)

\* the i-th position in the row-major order of np.where
PosAt(i) == [x |-> (i - 1) % (MaxX + 1), y |-> 2 * ((i - 1) \div (MaxX + 1))]

\* values of the score map of a correlation method; a SQDIFF map has 1 - v
MapVals == {50, 90, 100}

\* result <= (1 - threshold) for the two SQDIFF methods, else
\* result >= threshold
AboveThreshold(meth, value, thr) ==
    IF meth \in SqdiffMethods THEN value <= 100 - thr ELSE value >= thr

\* confidence = 1 - result[pt] for the two SQDIFF methods, else result[pt]
PointConfidence(meth, value) ==
    IF meth \in SqdiffMethods THEN 100 - value ELSE value

\* match_points: the positions np.where keeps, in row-major order, each
\* with its confidence
MatchPoints(map, meth, thr) ==
    SelectSeq([i \in 1 .. NPos |->
                  [x |-> PosAt(i).x, y |-> PosAt(i).y, value |-> map[i],
                   confidence |-> PointConfidence(meth, map[i])]],
              LAMBDA c : AboveThreshold(meth, c.value, thr))

\* the index of the first element of greatest confidence
FirstMax(seq) ==
    CHOOSE i \in 1 .. Len(seq) :
        /\ \A j \in 1 .. Len(seq) : seq[j].confidence <= seq[i].confidence
        /\ \A j \in 1 .. (i - 1) : seq[j].confidence < seq[i].confidence

\* match_points.sort(key=lambda x: x[1], reverse=True): descending, equal
\* confidences keep their order
RECURSIVE SortDescending(_)
SortDescending(seq) ==
    IF seq = <<>> THEN <<>>
    ELSE LET m == FirstMax(seq)
         IN  <<seq[m]>> \o SortDescending(SubSeq(seq, 1, m - 1)
                                           \o SubSeq(seq, m + 1, Len(seq)))

\* match_points[: max_matches * 3]
Candidates(sorted, max_count) == SubSeq(sorted, 1, Min(Len(sorted), max_count * 3))

Abs(n) == IF n < 0 THEN -n ELSE n

\* abs(x - existing_match["left"]) < template_w * 0.5 and
\* abs(y - existing_match["top"]) < template_h * 0.5
Overlaps(x, y, existing_match, template_w, template_h) ==
    /\ 2 * Abs(x - existing_match.left) < template_w
    /\ 2 * Abs(y - existing_match.top) < template_h

\* if region: match_result["left"] += region[0], ["top"] += region[1]
OffsetOf(reg) == IF reg # <<>> THEN <<reg[1], reg[2]>> ELSE <<0, 0>>

\* the match built for a candidate
MatchResult(c, template_w, template_h, reg) ==
    [left |-> c.x + OffsetOf(reg)[1], top |-> c.y + OffsetOf(reg)[2],
     width |-> template_w, height |-> template_h,
     center_x |-> c.x + template_w \div 2 + OffsetOf(reg)[1],
     center_y |-> c.y + template_h \div 2 + OffsetOf(reg)[2],
     confidence |-> c.confidence, region |-> reg]

\* if len(matches) >= max_matches: break
Full(matches, max_count) == Len(matches) >= max_count

\* the loop over the candidates from the i-th on
RECURSIVE Suppress(_, _, _, _, _, _, _)
Suppress(cands, i, matches, template_w, template_h, reg, max_count) ==
    IF i > Len(cands) THEN matches
    ELSE LET c == cands[i]
             overlap == \E k \in 1 .. Len(matches) :
                            Overlaps(c.x, c.y, matches[k], template_w, template_h)
             kept == IF overlap THEN matches
                     ELSE Append(matches, MatchResult(c, template_w, template_h, reg))
         IN  IF ~overlap /\ Full(kept, max_count) THEN kept
             ELSE Suppress(cands, i + 1, kept, template_w, template_h, reg,
                           max_count)

\* find_all_matches(template_path, config, region, max_matches), the
\* template read and the screen captured
FindAllMatches(map, meth, thr, template_w, template_h, reg, max_count) ==
    Suppress(Candidates(SortDescending(MatchPoints(map, meth, Get(thr, 80))),
                        max_count),
             1, <<>>, template_w, template_h, reg, max_count)

VARIABLES
    a_pc,          \* idle, or done when find_all_matches has returned
    a_map,         \* the score map cv2.matchTemplate computes
    a_method,      \* config["method"]
    a_threshold,   \* config["threshold"]
    a_template,    \* what cv2.imread gave: [ok, w, h]
    a_region,      \* the region argument
    a_max_matches, \* the max_matches argument
    a_matches      \* the list returned

a_vars == <<a_pc, a_map, a_method, a_threshold, a_template, a_region,
            a_max_matches, a_matches>>

\* regions of the screen: none, and one away from the screen's corner
AllRegions == { <<>>, <<MaxX + 1, 2, MaxX + 4, 4>> }

AInit ==
    /\ a_pc = "idle"
    /\ a_map = [i \in 1 .. NPos |-> 50]
    /\ a_method = "TM_CCOEFF_NORMED"
    /\ a_threshold = Absent
    /\ a_template = NoTemplate
    /\ a_region = <<>>
    /\ a_max_matches = 0
    /\ a_matches = <<>>

----------------------------------------------------------------------------
(* A template pasted into the target *)

VARIABLE
    planted    \* NoPlant, or where the template of the call was pasted
               \* unmodified into its target and whether it is of one colour

NoPlant == [at |-> <<-1, -1>>, solid |-> FALSE]

PInit == planted = NoPlant

\* what cv2.matchTemplate and cv2.minMaxLoc yield with TM_CCOEFF_NORMED for
\* a template of tw x th pasted at plant.at, resized to rw x rh.  Resized to
\* its own size the template is copied, and the score is 1.0 at plant.at
\* and lower elsewhere; at another size the best score is lower.  A template
\* of one colour has zero variance at every size: the map is 1.0 everywhere,
\* or 0 everywhere, and its maximum is reported at <<0, 0>>
PlantedOuts(tw, th, rw, rh, plant) ==
    LET at(v, l) == [raises |-> FALSE, min_val |-> v, max_val |-> v,
                     min_loc |-> l, max_loc |-> l]
    IN  IF plant.solid THEN {at(100, <<0, 0>>), at(0, <<0, 0>>)}
        ELSE IF rw = tw /\ rh = th THEN {at(100, plant.at)}
        ELSE { at(v, <<0, 0>>) : v \in ScoreVals \ {100} }

\* the outputs of OpenCV for the call that is running
OutsFor(meth, tw, th, rw, rh, sw, sh, plant) ==
    IF plant = NoPlant \/ TemplateTooLarge(rw, rh, sw, sh)
    THEN CvFor(meth, rw, rh, sw, sh)
    ELSE PlantedOuts(tw, th, rw, rh, plant)

----------------------------------------------------------------------------
(* The dictionaries that outlive a call *)

VARIABLE
    heap    \* the default configurations of the shared instances
            \* template_matcher, orb_matcher and yolo_orb_matcher, and the
            \* config dictionary of the caller of the running call

\* ORBFeatureMatchingEngine.default_orb_config, the keys the retry of
\* detect_and_compute writes
default_orb_config == [nfeatures |-> 1000, edgeThreshold |-> 15, fastThreshold |-> 10]

\* the orb_config _attempt_orb_matching builds from a configuration without
\* ORB parameters
AttemptOrbConfig == [nfeatures |-> 1000, edgeThreshold |-> 31, fastThreshold |-> 20]

\* loose_config.update({"fastThreshold": 5, "edgeThreshold": 10, "nfeatures": 2000})
LooseConfig(orb_config) ==
    [orb_config EXCEPT !.fastThreshold = 5, !.edgeThreshold = 10,
                       !.nfeatures = 2000]

\* the dictionaries as the module-level instances are constructed
InitialHeap ==
    [tm_default_config |-> default_config,
     orb_default_orb_config |-> default_orb_config,
     orb_default_match_config |-> default_match_config,
     hybrid_default_hybrid_config |-> default_hybrid_config,
     caller |-> NoneConfig]

HInit == heap = InitialHeap

\* mutant of Copy: the name is bound to the dictionary itself
Copy_Alias(ref) == ref

\* d.copy(): the dictionary written from here on is a new one
Copy(ref) == "new"

\* d.update(...) on the dictionary ref names, leaving it with value v
Store(h, ref, v) == IF ref = "new" THEN h ELSE [h EXCEPT ![ref] = v]

\* create_orb_detector(config): orb_config = self.default_orb_config.copy();
\* orb_config.update(config), for a config that has every key
HeapAfterCreateOrbDetector(h, orb_config) ==
    Store(h, Copy("orb_default_orb_config"), orb_config)

\* detect_and_compute(image, orb_config) for the dictionary orb_config_ref
\* names; zero_keypoints: the first detectAndCompute found no keypoint
HeapAfterDetectAndCompute(h, orb_config_ref, orb_config, zero_keypoints) ==
    LET h1 == HeapAfterCreateOrbDetector(h, orb_config)
        loose_config == LooseConfig(orb_config)
        h2 == Store(h1, Copy(orb_config_ref), loose_config)
    IN  IF zero_keypoints THEN HeapAfterCreateOrbDetector(h2, loose_config)
        ELSE h1

\* match_features(template_image, target_image, config) making the given
\* number of attempts, each with a new orb_config dictionary
HeapAfterMatchFeatures(h, cfg, attempts, zero_keypoints) ==
    LET defaults == h.orb_default_match_config
        h1 == Store(h, Copy("orb_default_match_config"),
                    Update(defaults, OrDefault(cfg, defaults)))
    IN  IF attempts = 0 THEN h1
        ELSE HeapAfterDetectAndCompute(h1, "new", AttemptOrbConfig,
                                       zero_keypoints)

\* match_with_yolo_orb(template_image, target_image, config)
HeapAfterMatchWithYoloOrb(h, cfg, attempts, zero_keypoints) ==
    LET defaults == h.hybrid_default_hybrid_config
        hybrid_config == Update(defaults, OrDefault(cfg, defaults))
        h1 == Store(h, Copy("hybrid_default_hybrid_config"), hybrid_config)
    IN  IF FallsBack(hybrid_config)
        THEN HeapAfterMatchFeatures(h1, hybrid_config, attempts, zero_keypoints)
        ELSE h1

\* _match_in_roi(template_image, target_image, detection, config)
HeapAfterMatchInRoi(h, cfg, attempts, zero_keypoints) ==
    IF cfg.is_none THEN h
    ELSE HeapAfterMatchFeatures(h, cfg, attempts, zero_keypoints)

\* whether the first detectAndCompute of an image found no keypoint: it did
\* where the descriptors are None after the retry
ZeroKeypoints(w) == IF w.des1 = -1 \/ w.des2 = -1 THEN {TRUE} ELSE BOOLEAN

VARIABLE
    controller    \* the fields of ImageMatcherController the realtime
                  \* detection reads and writes, with what the last slot
                  \* emitted on realtimeDetectionStateChanged and the flag
                  \* it found

PureYoloMode == 3

MinInterval == 100

MaxInterval == 5000

DefaultInterval == 500

NoRect == [width |-> 0, height |-> 0]

\* the controller as __init__ leaves it
NewController ==
    [algorithm_mode |-> 0,
     selected_window_rect |-> NoRect,
     realtime_detection_active |-> FALSE,
     realtime_timer |-> "None",
     realtime_interval |-> DefaultInterval,
     timer_interval |-> 0,
     running_timers |-> 0,
     area_capture_timer |-> "None",
     emitted |-> "nothing",
     was_active |-> FALSE]

KInit == controller = NewController

\* rectangles a selection can carry
Rects == [width : {-1, 0, 2}, height : {0, 3}]

\* arguments of setRealtimeInterval
IntervalInputs == {-1, 0, MinInterval - 1, MinInterval, DefaultInterval,
                   MaxInterval, MaxInterval + 1}

\* a slot begins: nothing emitted yet, the flag as it finds it
Entered(c) ==
    [c EXCEPT !.emitted = "nothing", !.was_active = c.realtime_detection_active]

\* the region test of startRealtimeDetection
NoRegionSelected(c) ==
    c.selected_window_rect.width <= 0 \/ c.selected_window_rect.height <= 0

\* _setupRealtimeTimer(): a timer there is stopped, a new one is created
\* with the stored interval and started
SetupRealtimeTimer(c) ==
    [c EXCEPT !.running_timers =
                  (IF c.realtime_timer # "None" THEN @ - 1 ELSE @) + 1,
              !.realtime_timer = "QTimer",
              !.timer_interval = c.realtime_interval]

\* startRealtimeDetection()
StartRealtime(c) ==
    IF c.realtime_detection_active THEN c
    ELSE IF NoRegionSelected(c) THEN c
    ELSE IF c.algorithm_mode # PureYoloMode THEN c
    ELSE [SetupRealtimeTimer([c EXCEPT !.realtime_detection_active = TRUE])
             EXCEPT !.emitted = "True"]

\* stopRealtimeDetection()
StopRealtime(c) ==
    IF ~c.realtime_detection_active THEN c
    ELSE [c EXCEPT !.realtime_detection_active = FALSE,
                   !.running_timers =
                       IF c.realtime_timer # "None" THEN @ - 1 ELSE @,
                   !.realtime_timer = "None",
                   !.timer_interval =
                       IF c.realtime_timer # "None" THEN 0 ELSE @,
                   !.emitted = "False"]

\* mutant of ClampInterval: the interval is stored as given
ClampInterval_AsGiven(interval_ms) == interval_ms

\* max(100, min(5000, interval_ms))
ClampInterval(interval_ms) == Max(MinInterval, Min(MaxInterval, interval_ms))

\* setRealtimeInterval(interval_ms)
SetInterval(c, interval_ms) ==
    LET c1 == [c EXCEPT !.realtime_interval = ClampInterval(interval_ms)]
    IN  IF c1.realtime_timer # "None" /\ c1.realtime_detection_active
        THEN [c1 EXCEPT !.timer_interval = c1.realtime_interval]
        ELSE c1

\* _performRealtimeDetection(): outcome is what the capture and the detector
\* do, "raises" any exception inside the try
PerformRealtimeDetection(c, outcome) ==
    IF ~c.realtime_detection_active THEN c
    ELSE IF outcome = "raises" THEN StopRealtime(c)
    ELSE c

VARIABLE
    roi_results    \* the detections match_with_yolo_orb went through and
                   \* what _match_in_roi returned for each, in order

RInit == roi_results = <<>>

MaxDets == 3

\* lists a detector can return: boxes in the target, told apart by their
\* confidence
DetectionLists ==
    { [i \in 1 .. n |->
          [x |-> i - 1, y |-> 0, width |-> 4, height |-> 2, confidence |-> 50 + i]] :
      n \in 1 .. MaxDets }

\* what OpenCV can compute in a region: too few descriptors, or descriptors
\* and none, all but one or all of the correspondences as inliers
RoiWorlds(cfg) ==
    { w \in Worlds(MatchConfig(cfg)) :
        /\ w.proj = "raises" /\ w.hom # "raises"
        /\ w.des1 \in {3, MaxFew} /\ w.des2 \in {3, 4}
        /\ w.n \in {0, 4, MaxFew}
        /\ w.hom = "ok" => w.k >= w.n - 1 }

\* what OpenCV can compute in the whole target for the fallback
FallbackWorlds(cfg) ==
    { w \in RoiWorlds(FallbackConfig(cfg)) :
        w.des2 = 4 /\ w.n \in {0, MaxFew} /\ w.hom = "ok" => w.k = w.n }

\* configurations handed to match_with_yolo_orb when the detector finds
\* objects
SearchConfigs == { cfg \in RoiConfigs : cfg.yolo_roi_expansion = Absent }

VARIABLE
    orb_call    \* a call of detect_and_compute: where it is, the orb_config
                \* it was given, the parameter sets of the detectors it
                \* created, in order, and the number of keypoints it returns

\* orb_config = None
NoOrbConfig == [nfeatures |-> Absent, edgeThreshold |-> Absent, fastThreshold |-> Absent]

NoOrbCall == [pc |-> "idle", orb_config |-> NoOrbConfig, used |-> <<>>, keypoints |-> 0]

OInit == orb_call = NoOrbCall

\* the orb_config _attempt_orb_matching builds from the keys of its config,
\* Absent for a missing key
OrbConfigFrom(nfeatures, edgeThreshold, fastThreshold) ==
    [nfeatures |-> Get(nfeatures, 1000),
     edgeThreshold |-> Get(edgeThreshold, 31),
     fastThreshold |-> Get(fastThreshold, 20)]

\* configurations given to detect_and_compute: None, and those built by
\* _attempt_orb_matching
OrbConfigs ==
    {NoOrbConfig} \cup
    { OrbConfigFrom(nf, Absent, ft) :
        nf \in {Absent, 500, 5000}, ft \in {Absent, 3, 40} }

\* the parameters of the detector create_orb_detector(config) creates: the
\* defaults for None, else the defaults overlaid with a config of every key
CreateOrbDetector(orb_cfg) ==
    IF orb_cfg = NoOrbConfig THEN default_orb_config ELSE orb_cfg

\* loose_config of detect_and_compute: a copy of orb_config, of the defaults
\* when orb_config is None or empty, with the three fixed values
LooseConfigFor(orb_config) == LooseConfig(CreateOrbDetector(orb_config))

\* the detectors detect_and_compute creates when the first detectAndCompute
\* finds first keypoints: a second one only after zero keypoints
DetectorsUsed(orb_config, first) ==
    IF first = 0
    THEN << CreateOrbDetector(orb_config),
            CreateOrbDetector(LooseConfigFor(orb_config)) >>
    ELSE << CreateOrbDetector(orb_config) >>

VARIABLE
    cancel    \* the cancel flag of the caller of find_template_on_screen:
              \* raised by the caller's side while the call runs

CInit == cancel = FALSE

VARIABLE
    seen    \* of the scales _multi_scale_match has evaluated so far: the
            \* greatest confidence that passed the threshold, and the index
            \* of the first scale that gave it

NoSeen == [max |-> Absent, at |-> -1]

SInit == seen = NoSeen

\* seen after the scale of index k gave confidence conf (Absent when
\* _single_scale_match did not get to compute one)
SeenAfter(s, k, conf, thr) ==
    IF conf \in {Absent, NaN} \/ conf < thr THEN s
    ELSE IF s.at = -1 \/ conf > s.max THEN [max |-> conf, at |-> k]
    ELSE s

\* the variables of the engines other than the feature and hybrid ones
feature_frame == <<tm_vars, d_vars, a_vars, planted, cancel, seen, orb_call, roi_results, controller>>

\* the variables of the other engines
engines_other_than_tm == <<f_vars, d_vars, a_vars, orb_call, roi_results, controller>>

\* the variables the correlation engine leaves alone
\* the variables the steps of the correlation engine leave alone
tm_frame == <<engines_other_than_tm, planted, heap, cancel>>

other_than_tm == <<tm_frame, seen>>

\* the variables the feature and hybrid engines leave alone
other_than_f == <<feature_frame, heap>>

\* the variables the detectors leave alone
other_than_d == <<tm_vars, f_vars, a_vars, planted, heap, cancel, seen, orb_call, roi_results, controller>>

\* the variables find_all_matches leaves alone
other_than_a == <<tm_vars, f_vars, d_vars, planted, heap, cancel, seen, orb_call, roi_results, controller>>

other_than_orb == <<tm_vars, f_vars, d_vars, a_vars, planted, cancel, seen, roi_results,
                    controller>>

roi_search_frame == <<tm_vars, d_vars, a_vars, planted, cancel, seen, orb_call,
                      controller>>

other_than_controller == <<tm_vars, f_vars, d_vars, a_vars, planted, heap, cancel, seen,
                           orb_call, roi_results>>

----------------------------------------------------------------------------
(* TemplateMatchingEngine, step by step *)

\* config.get("max_retries", 3)
max_retries == Get(config.max_retries, 3)

\* config.get("retry_delay", 1.0)
retry_delay == Get(config.retry_delay, 100)

\* config.get("threshold", 0.8)
threshold == Get(config.threshold, 80)

\* the metric _match_template selects
method == LookupMethod(config.method)

\* what the running call hands back: an attempt of find_template_on_screen
\* returns to the retry loop (with the region shift of _attempt_opencv_match),
\* a direct _match_template call returns to its caller
Hand(r) ==
    /\ result' = (IF entry = "find_template_on_screen"
                  THEN AdjustRegion(r, region) ELSE r)
    /\ pc' = (IF entry = "find_template_on_screen" THEN "after" ELSE "done")

\* find_template_in_image: both images read, then _match_template
CallMatchTemplate ==
    /\ pc = "idle"
    /\ f_pc = "idle"
    /\ d_pc = "idle"
    /\ \E t \in Templates, sw \in Dims, sh \in Dims, cfg \in MatchConfigs :
          /\ template' = t
          /\ screenshot' = <<sw, sh>>
          /\ config' = cfg
    /\ entry' = "_match_template"
    /\ pc' = "match"
    /\ UNCHANGED <<region, attempt, schedule, scale_k, best_result,
                   best_confidence, confidence, result>>
    /\ UNCHANGED other_than_tm

\* configurations for targets holding the template: the default one, the
\* default one without scales, and two with other scale ranges
PlantedConfigs ==
    {default_config} \cup
    { [default_config EXCEPT !.scale_range = r] :
        r \in {<<>>, <<0, 100>>, <<100, 300>>} }

\* _match_template with the default method, on a target into which the
\* template was pasted
CallMatchPlanted ==
    /\ pc = "idle"
    /\ f_pc = "idle"
    /\ d_pc = "idle"
    /\ \E t \in Templates, sw \in Dims, sh \in Dims, is_solid \in BOOLEAN :
          /\ t.ok /\ t.w <= sw /\ t.h <= sh
          /\ \E l \in Locs(t.w, t.h, sw, sh) :
                planted' = [at |-> l, solid |-> is_solid]
          /\ template' = t
          /\ screenshot' = <<sw, sh>>
    /\ \E cfg \in PlantedConfigs : config' = cfg
    /\ entry' = "_match_template"
    /\ pc' = "match"
    /\ UNCHANGED <<region, attempt, schedule, scale_k, best_result,
                   best_confidence, confidence, result>>
    /\ UNCHANGED <<engines_other_than_tm, heap, cancel, seen>>

\* find_template_on_screen up to the head of its retry loop
CallFindTemplateOnScreen ==
    /\ pc = "idle"
    /\ f_pc = "idle"
    /\ d_pc = "idle"
    /\ \E t \in Templates \cup {NoTemplate}, cfg \in ScreenConfigs, reg \in Regions :
          /\ template' = t
          /\ config' = cfg
          /\ region' = reg
          /\ pc' = (IF Get(cfg.max_retries, 3) > 0 THEN "attempt" ELSE "done")
    /\ entry' = "find_template_on_screen"
    /\ attempt' = 0
    /\ schedule' = <<>>
    /\ result' = None
    /\ UNCHANGED <<screenshot, scale_k, best_result, best_confidence, confidence>>
    /\ UNCHANGED other_than_tm

\* _attempt_opencv_match: the template cannot be read
AttemptUnreadable ==
    /\ pc = "attempt"
    /\ ~template.ok
    /\ schedule' = Append(schedule, "attempt")
    /\ result' = None
    /\ pc' = "after"
    /\ UNCHANGED <<entry, template, screenshot, config, region, attempt,
                   scale_k, best_result, best_confidence, confidence>>
    /\ UNCHANGED other_than_tm

\* _attempt_opencv_match: _capture_screen fails and returns None
AttemptCaptureFails ==
    /\ pc = "attempt"
    /\ template.ok
    /\ schedule' = Append(schedule, "attempt")
    /\ screenshot' = <<>>
    /\ result' = None
    /\ pc' = "after"
    /\ UNCHANGED <<entry, template, config, region, attempt, scale_k,
                   best_result, best_confidence, confidence>>
    /\ UNCHANGED other_than_tm

\* _attempt_opencv_match: template read, screen captured, _match_template entered
AttemptCaptures ==
    /\ pc = "attempt"
    /\ template.ok
    /\ schedule' = Append(schedule, "attempt")
    /\ screenshot' = (IF region = <<>> THEN ScreenSize ELSE <<region[3], region[4]>>)
    /\ pc' = "match"
    /\ UNCHANGED <<entry, template, config, region, attempt, scale_k,
                   best_result, best_confidence, confidence, result>>
    /\ UNCHANGED other_than_tm

\* _match_template taking the single-scale branch
MatchSingle ==
    /\ pc = "match"
    /\ ~IsMultiScale(config)
    /\ \E cv \in OutsFor(method, template.w, template.h, template.w, template.h,
                        screenshot[1], screenshot[2], planted) :
          /\ confidence' = ConfidenceOf(template.w, template.h, screenshot[1],
                                        screenshot[2], method, cv)
          /\ Hand(SingleScaleMatch(template.w, template.h, screenshot[1],
                                   screenshot[2], method, threshold, cv))
    /\ UNCHANGED <<entry, template, screenshot, config, region, attempt,
                   schedule, scale_k, best_result, best_confidence>>
    /\ UNCHANGED other_than_tm

\* _match_template taking the multi-scale branch: _multi_scale_match starts
MatchMulti ==
    /\ pc = "match"
    /\ IsMultiScale(config)
    /\ scale_k' = 0
    /\ best_result' = None
    /\ best_confidence' = 0
    /\ confidence' = Absent
    /\ pc' = "multi"
    /\ seen' = NoSeen
    /\ UNCHANGED <<entry, template, screenshot, config, region, attempt,
                   schedule, result>>
    /\ UNCHANGED tm_frame

\* the scale the loop of _multi_scale_match is at
scale == Linspace(config.scale_range, config.scale_steps, scale_k)

scaled_w == ScaledSize(template.w, scale)

scaled_h == ScaledSize(template.h, scale)

\* cv2.resize raises: the except clause of _multi_scale_match returns None
ScaleResizeRaises ==
    /\ pc = "multi"
    /\ scale_k < config.scale_steps
    /\ ResizeRaises(template.w, template.h, scale)
    /\ Hand(ReturnNoneOnException(Exc))
    /\ UNCHANGED <<entry, template, screenshot, config, region, attempt,
                   schedule, scale_k, best_result, best_confidence, confidence>>
    /\ UNCHANGED other_than_tm

\* the resized template does not fit: continue with the next scale
ScaleSkipped ==
    /\ pc = "multi"
    /\ scale_k < config.scale_steps
    /\ ~ResizeRaises(template.w, template.h, scale)
    /\ ScaledTooLarge(scaled_w, scaled_h, screenshot[1], screenshot[2])
    /\ scale_k' = scale_k + 1
    /\ UNCHANGED <<pc, entry, template, screenshot, config, region, attempt,
                   schedule, best_result, best_confidence, confidence, result>>
    /\ UNCHANGED other_than_tm

\* one scale is evaluated by _single_scale_match and compared with the best
ScaleEvaluated ==
    /\ pc = "multi"
    /\ scale_k < config.scale_steps
    /\ ~ResizeRaises(template.w, template.h, scale)
    /\ ~ScaledTooLarge(scaled_w, scaled_h, screenshot[1], screenshot[2])
    /\ \E cv \in OutsFor(method, template.w, template.h, scaled_w, scaled_h,
                        screenshot[1], screenshot[2], planted) :
          LET r == SingleScaleMatch(scaled_w, scaled_h, screenshot[1],
                                    screenshot[2], method, threshold, cv)
          IN  /\ confidence' = ConfidenceOf(scaled_w, scaled_h, screenshot[1],
                                            screenshot[2], method, cv)
              /\ IF Improves(r, best_confidence)
                 THEN /\ best_confidence' = r.confidence
                      /\ best_result' = [r EXCEPT !.scale = scale]
                 ELSE UNCHANGED <<best_result, best_confidence>>
              /\ seen' = SeenAfter(seen, scale_k,
                                   ConfidenceOf(scaled_w, scaled_h, screenshot[1],
                                                screenshot[2], method, cv),
                                   threshold)
    /\ scale_k' = scale_k + 1
    /\ UNCHANGED <<pc, entry, template, screenshot, config, region, attempt,
                   schedule, result>>
    /\ UNCHANGED tm_frame

\* every scale has been tried: _multi_scale_match returns best_result
MultiReturn ==
    /\ pc = "multi"
    /\ scale_k >= config.scale_steps
    /\ Hand(best_result)
    /\ UNCHANGED <<entry, template, screenshot, config, region, attempt,
                   schedule, scale_k, best_result, best_confidence, confidence>>
    /\ UNCHANGED other_than_tm

\* find_template_on_screen: the attempt found the template, return it
AttemptSucceeded ==
    /\ pc = "after"
    /\ ~result.isNone
    /\ pc' = "done"
    /\ UNCHANGED <<entry, template, screenshot, config, region, attempt,
                   schedule, scale_k, best_result, best_confidence, confidence,
                   result>>
    /\ UNCHANGED other_than_tm

\* find_template_on_screen: the attempt found nothing; sleep before the next
\* attempt if there is one, return None after the last
AttemptFailed ==
    /\ pc = "after"
    /\ result.isNone
    /\ schedule' = (IF SleepsAfter(attempt, max_retries)
                    THEN Append(schedule, "sleep") ELSE schedule)
    /\ attempt' = attempt + 1
    /\ pc' = (IF attempt + 1 < max_retries THEN "attempt" ELSE "done")
    /\ UNCHANGED <<entry, template, screenshot, config, region, scale_k,
                   best_result, best_confidence, confidence, result>>
    /\ UNCHANGED other_than_tm

\* the caller has the result; the engine is ready for the next call
TMReturn ==
    /\ pc = "done"
    /\ pc' = "idle"
    /\ entry' = "none"
    /\ template' = NoTemplate
    /\ screenshot' = <<>>
    /\ config' = default_config
    /\ region' = <<>>
    /\ attempt' = 0
    /\ schedule' = <<>>
    /\ scale_k' = 0
    /\ best_result' = None
    /\ best_confidence' = 0
    /\ confidence' = Absent
    /\ result' = None
    /\ planted' = NoPlant
    /\ cancel' = FALSE
    /\ seen' = NoSeen
    /\ UNCHANGED <<engines_other_than_tm, heap>>

\* the caller's side raises the cancel flag while an attempt of
\* find_template_on_screen runs; no statement of the engine reads the flag
RaiseCancel ==
    /\ entry = "find_template_on_screen"
    /\ pc \in {"attempt", "match", "multi"}
    /\ ~cancel
    /\ cancel' = TRUE
    /\ UNCHANGED <<tm_vars, engines_other_than_tm, planted, heap, seen>>

\* a caller runs match_features to its return
CallMatchFeatures ==
    /\ pc = "idle"
    /\ f_pc = "idle"
    /\ d_pc = "idle"
    /\ \E cfg \in FeatureConfigs :
          \E w \in Worlds(MatchConfig(cfg)) :
             /\ f_config' = cfg
             /\ f_world' = w
             /\ f_result' = MatchFeatures(w, cfg).result
             /\ f_schedule' = MatchFeatures(w, cfg).schedule
             /\ \E zero_keypoints \in ZeroKeypoints(w) :
                   heap' = HeapAfterMatchFeatures(
                               [heap EXCEPT !.caller = cfg], cfg,
                               Len(MatchFeatures(w, cfg).schedule),
                               zero_keypoints)
    /\ f_entry' = "match_features"
    /\ f_pc' = "done"
    /\ UNCHANGED <<f_image, f_detection>>
    /\ UNCHANGED feature_frame

\* a caller runs match_features with one image as template and as target
CallMatchFeaturesSameImage ==
    /\ pc = "idle"
    /\ f_pc = "idle"
    /\ d_pc = "idle"
    /\ \E cfg \in FeatureConfigs :
          \E w \in SameImageWorlds(MatchConfig(cfg), TargetSize) :
             /\ f_config' = cfg
             /\ f_world' = w
             /\ f_result' = MatchFeatures(w, cfg).result
             /\ f_schedule' = MatchFeatures(w, cfg).schedule
             /\ \E zero_keypoints \in ZeroKeypoints(w) :
                   heap' = HeapAfterMatchFeatures(
                               [heap EXCEPT !.caller = cfg], cfg,
                               Len(MatchFeatures(w, cfg).schedule),
                               zero_keypoints)
    /\ f_image' = TargetSize
    /\ f_entry' = "match_features"
    /\ f_pc' = "done"
    /\ UNCHANGED f_detection
    /\ UNCHANGED feature_frame

\* a caller runs match_with_yolo_orb to its return
CallMatchWithYoloOrb ==
    /\ pc = "idle"
    /\ f_pc = "idle"
    /\ d_pc = "idle"
    /\ \E cfg \in HybridConfigs :
          \E w \in Worlds(MatchConfig(FallbackConfig(cfg))) :
             /\ f_config' = cfg
             /\ f_world' = w
             /\ f_result' = MatchWithYoloOrb(w, <<>>, TargetSize, cfg).result
             /\ f_schedule' = MatchWithYoloOrb(w, <<>>, TargetSize, cfg).schedule
             /\ \E zero_keypoints \in ZeroKeypoints(w) :
                   heap' = HeapAfterMatchWithYoloOrb(
                               [heap EXCEPT !.caller = cfg], cfg,
                               Len(MatchWithYoloOrb(w, <<>>, TargetSize, cfg).schedule),
                               zero_keypoints)
    /\ f_image' = TargetSize
    /\ f_entry' = "match_with_yolo_orb"
    /\ f_pc' = "done"
    /\ UNCHANGED f_detection
    /\ UNCHANGED feature_frame

\* _match_in_roi is run for one detection in the target image
CallMatchInRoi ==
    /\ pc = "idle"
    /\ f_pc = "idle"
    /\ d_pc = "idle"
    /\ \E cfg \in RoiConfigs, det \in Detections :
          \E w \in Worlds(MatchConfig(cfg)) :
             /\ f_config' = cfg
             /\ f_detection' = det
             /\ f_world' = w
             /\ f_result' = MatchInRoi(det, TargetSize, w, cfg)
             /\ \E zero_keypoints \in ZeroKeypoints(w) :
                   heap' = HeapAfterMatchInRoi(
                               [heap EXCEPT !.caller = cfg], cfg,
                               Len(MatchFeatures(w, cfg).schedule),
                               zero_keypoints)
    /\ f_image' = TargetSize
    /\ f_schedule' = <<>>
    /\ f_entry' = "_match_in_roi"
    /\ f_pc' = "done"
    /\ UNCHANGED feature_frame

\* the slot startRealtimeDetection
StartRealtimeDetection ==
    /\ controller' = StartRealtime(Entered(controller))
    /\ UNCHANGED other_than_controller

\* the slot stopRealtimeDetection
StopRealtimeDetection ==
    /\ controller' = StopRealtime(Entered(controller))
    /\ UNCHANGED other_than_controller

\* the slot setRealtimeInterval
SetRealtimeInterval ==
    /\ \E interval_ms \in IntervalInputs :
          controller' = SetInterval(Entered(controller), interval_ms)
    /\ UNCHANGED other_than_controller

\* the realtime timer times out
RealtimeTimerTick ==
    /\ controller.running_timers > 0
    /\ \E outcome \in {"no capture", "shown", "cleared", "raises"} :
          controller' = PerformRealtimeDetection(Entered(controller), outcome)
    /\ UNCHANGED other_than_controller

\* the slot switchAlgorithmMode(mode)
SwitchAlgorithmMode ==
    /\ \E mode \in 0 .. PureYoloMode :
          controller' = [Entered(controller) EXCEPT !.algorithm_mode = mode]
    /\ UNCHANGED other_than_controller

\* the slot selectWindow(window_title, window_rect_json): the rectangle of
\* the JSON text, the zero rectangle when it does not parse, the rectangle
\* kept when the text is empty
SelectWindow ==
    /\ \E rect \in Rects \cup {NoRect, controller.selected_window_rect} :
          controller' = [Entered(controller) EXCEPT !.selected_window_rect = rect]
    /\ UNCHANGED other_than_controller

\* the slot selectScreenArea(area_rect_json): the rectangle of the JSON text
\* and the area capture timer restarted, the zero rectangle when the text
\* does not parse
SelectScreenArea ==
    /\ \/ \E rect \in Rects :
             controller' = [Entered(controller) EXCEPT
                               !.selected_window_rect = rect,
                               !.area_capture_timer = "QTimer"]
       \/ controller' = [Entered(controller) EXCEPT !.selected_window_rect = NoRect]
    /\ UNCHANGED other_than_controller

\* match_with_yolo_orb run to its return for a detector that returned dets
CallSearchDetections ==
    /\ pc = "idle" /\ f_pc = "idle" /\ d_pc = "idle"
    /\ \E cfg \in SearchConfigs, dets \in DetectionLists :
          \E w \in FallbackWorlds(cfg),
             rws \in [1 .. Len(dets) -> RoiWorlds(cfg)] :
             LET out == SearchDetections(dets, w, rws, TargetSize, cfg)
             IN  /\ f_config' = cfg
                 /\ f_world' = w
                 /\ f_result' = out.result
                 /\ f_schedule' = out.schedule
                 /\ roi_results' =
                       [i \in 1 .. Len(dets) |->
                           [detection |-> dets[i],
                            result |-> MatchInRoi(dets[i], TargetSize, rws[i], cfg)]]
                 /\ \E zero_keypoints \in ZeroKeypoints(w) :
                       heap' = HeapAfterMatchWithYoloOrb(
                                   [heap EXCEPT !.caller = cfg], cfg,
                                   Len(out.schedule), zero_keypoints)
    /\ f_image' = TargetSize
    /\ f_entry' = "match_with_yolo_orb"
    /\ f_pc' = "done"
    /\ UNCHANGED f_detection
    /\ UNCHANGED roi_search_frame

\* the caller has the result of the search
SearchReturn ==
    /\ f_pc = "done" /\ roi_results # <<>>
    /\ f_pc' = "idle"
    /\ f_entry' = "none"
    /\ f_config' = NoneConfig
    /\ f_world' = BlankWorld
    /\ f_image' = <<0, 0>>
    /\ f_detection' = NoDetection
    /\ f_result' = None
    /\ f_schedule' = <<>>
    /\ roi_results' = <<>>
    /\ heap' = [heap EXCEPT !.caller = NoneConfig]
    /\ UNCHANGED roi_search_frame

\* detect_and_compute(image, orb_config) run to its return: first and second
\* are the numbers of keypoints the first and the loosened detector find
CallDetectAndCompute ==
    /\ pc = "idle" /\ f_pc = "idle" /\ d_pc = "idle"
    /\ orb_call.pc = "idle"
    /\ \E orb_config \in OrbConfigs, first \in 0 .. MaxFew, second \in 0 .. MaxFew :
          /\ first > 0 => second = first
          /\ orb_call' = [pc |-> "done", orb_config |-> orb_config,
                          used |-> DetectorsUsed(orb_config, first),
                          keypoints |-> second]
          /\ heap' = HeapAfterDetectAndCompute(
                         heap, IF orb_config = NoOrbConfig THEN "orb_default_orb_config"
                               ELSE "new",
                         CreateOrbDetector(orb_config), first = 0)
    /\ UNCHANGED other_than_orb

\* the caller has the keypoints
OrbReturn ==
    /\ orb_call.pc = "done"
    /\ orb_call' = NoOrbCall
    /\ UNCHANGED heap
    /\ UNCHANGED other_than_orb

\* the caller has the result; the engines are ready for the next call
FReturn ==
    /\ f_pc = "done"
    /\ f_pc' = "idle"
    /\ f_entry' = "none"
    /\ f_config' = NoneConfig
    /\ f_world' = BlankWorld
    /\ f_image' = <<0, 0>>
    /\ f_detection' = NoDetection
    /\ f_result' = None
    /\ f_schedule' = <<>>
    /\ heap' = [heap EXCEPT !.caller = NoneConfig]
    /\ UNCHANGED feature_frame

\* YOLOORBMatchingEngine.detect_objects_yolo(image, config): a model path
\* makes it reload the model, the list it returns is empty either way
CallDetectObjectsYolo ==
    /\ pc = "idle" /\ f_pc = "idle" /\ d_pc = "idle"
    /\ \E model_path \in ModelPaths, backend \in BackendLists,
          cfg \in {NoneConfig, EmptyConfig} :
          /\ d_model_path' = model_path
          /\ d_backend' = backend
          /\ d_result' = DetectObjectsYolo(cfg)
    /\ d_entry' = "detect_objects_yolo"
    /\ d_pc' = "done"
    /\ UNCHANGED <<d_prev, clock>>
    /\ UNCHANGED other_than_d

\* PureYOLOMatchingEngine.detect_objects_yolo(image, config)
CallPureDetectObjectsYolo ==
    /\ pc = "idle" /\ f_pc = "idle" /\ d_pc = "idle"
    /\ \E model_path \in ModelPaths, backend \in BackendLists :
          /\ d_model_path' = model_path
          /\ d_backend' = backend
          /\ d_result' = PureDetectObjectsYolo(model_path, backend)
    /\ d_entry' = "pure_detect_objects_yolo"
    /\ d_pc' = "done"
    /\ UNCHANGED <<d_prev, clock>>
    /\ UNCHANGED other_than_d

\* match_with_pure_yolo(template_image, target_image, config); time has
\* passed since the call before, or too little for the clock to show
CallMatchWithPureYolo ==
    /\ pc = "idle" /\ f_pc = "idle" /\ d_pc = "idle"
    /\ \E model_path \in ModelPaths, backend \in BackendLists,
          now \in clock .. Min(clock + 1, MaxClock) :
          /\ d_model_path' = model_path
          /\ d_backend' = backend
          /\ clock' = now
          /\ d_result' = ReturnNoneOnException(
                             MatchWithPureYolo(model_path, backend, now))
    /\ d_entry' = "match_with_pure_yolo"
    /\ d_pc' = "done"
    /\ UNCHANGED d_prev
    /\ UNCHANGED other_than_d

\* the caller has the result of match_with_pure_yolo and may call again
PureReturn ==
    /\ d_pc = "done"
    /\ d_entry = "match_with_pure_yolo"
    /\ d_prev' = [entry |-> d_entry, model_path |-> d_model_path,
                  backend |-> d_backend, result |-> d_result]
    /\ d_pc' = "idle"
    /\ d_entry' = "none"
    /\ d_model_path' = "absent"
    /\ d_backend' = <<>>
    /\ d_result' = None
    /\ UNCHANGED clock
    /\ UNCHANGED other_than_d

\* the caller has the list of detections
DReturn ==
    /\ d_pc = "done"
    /\ d_entry # "match_with_pure_yolo"
    /\ UNCHANGED d_prev
    /\ d_pc' = "idle"
    /\ d_entry' = "none"
    /\ d_model_path' = "absent"
    /\ d_backend' = <<>>
    /\ d_result' = None
    /\ UNCHANGED clock
    /\ UNCHANGED other_than_d

\* find_all_matches: the template cannot be read, [] is returned
CallFindAllUnreadable ==
    /\ pc = "idle" /\ f_pc = "idle" /\ d_pc = "idle" /\ a_pc = "idle"
    /\ \E reg \in AllRegions, n \in 0 .. MaxMatches :
          /\ a_region' = reg
          /\ a_max_matches' = n
    /\ a_template' = NoTemplate
    /\ a_matches' = <<>>
    /\ a_pc' = "done"
    /\ UNCHANGED <<a_map, a_method, a_threshold>>
    /\ UNCHANGED other_than_a

\* find_all_matches: template read, screen captured, score map searched
CallFindAllMatches ==
    /\ pc = "idle" /\ f_pc = "idle" /\ d_pc = "idle" /\ a_pc = "idle"
    /\ \E map \in [1 .. NPos -> MapVals],
          meth \in {"TM_CCOEFF_NORMED", "TM_SQDIFF_NORMED"},
          thr \in {Absent, 80}, w \in {2, 4},
          reg \in AllRegions, n \in 0 .. MaxMatches :
          /\ a_map' = (IF meth \in SqdiffMethods
                        THEN [i \in 1 .. NPos |-> 100 - map[i]] ELSE map)
          /\ a_method' = meth
          /\ a_threshold' = thr
          /\ a_template' = [ok |-> TRUE, w |-> w, h |-> 2]
          /\ a_region' = reg
          /\ a_max_matches' = n
          /\ a_matches' = FindAllMatches(a_map', LookupMethod(meth), thr, w, 2,
                                          reg, n)
    /\ a_pc' = "done"
    /\ UNCHANGED other_than_a

\* the caller has the list
AReturn ==
    /\ a_pc = "done"
    /\ a_pc' = "idle"
    /\ a_map' = [i \in 1 .. NPos |-> 50]
    /\ a_method' = "TM_CCOEFF_NORMED"
    /\ a_threshold' = Absent
    /\ a_template' = NoTemplate
    /\ a_region' = <<>>
    /\ a_max_matches' = 0
    /\ a_matches' = <<>>
    /\ UNCHANGED other_than_a

MatchSteps ==
    \/ MatchSingle
    \/ MatchMulti
    \/ ScaleResizeRaises
    \/ ScaleSkipped
    \/ ScaleEvaluated
    \/ MultiReturn

ScreenSteps ==
    \/ CallFindTemplateOnScreen
    \/ AttemptUnreadable
    \/ AttemptCaptureFails
    \/ AttemptCaptures
    \/ MatchSteps
    \/ AttemptSucceeded
    \/ AttemptFailed
    \/ TMReturn

vars == <<tm_vars, f_vars, d_vars, a_vars, planted, heap, cancel, seen, orb_call,
          roi_results, controller>>

Init == TMInit /\ FInit /\ DInit /\ AInit /\ PInit /\ HInit /\ CInit /\ SInit /\ OInit /\ RInit /\ KInit

\* direct calls of _match_template (find_template_in_image)
MatchNext == CallMatchTemplate \/ MatchSteps \/ TMReturn

SpecMatch == Init /\ [][MatchNext]_vars

\* calls of find_template_on_screen under its retry loop
ScreenNext == ScreenSteps

SpecScreen == Init /\ [][ScreenNext]_vars

\* calls of match_features
FeatureNext == CallMatchFeatures \/ FReturn

SpecFeature == Init /\ [][FeatureNext]_vars

\* calls into the hybrid engine
HybridNext == CallMatchWithYoloOrb \/ CallMatchInRoi \/ FReturn

SpecHybrid == Init /\ [][HybridNext]_vars

\* the two retry loops: find_template_on_screen and match_features
RetryNext == ScreenSteps \/ CallMatchFeatures \/ FReturn

SpecRetry == Init /\ [][RetryNext]_vars

\* the detectors, and the hybrid engine that asks one of them
DetectNext ==
    \/ CallDetectObjectsYolo
    \/ CallPureDetectObjectsYolo
    \/ CallMatchWithYoloOrb
    \/ FReturn
    \/ DReturn

SpecDetect == Init /\ [][DetectNext]_vars

\* calls of match_with_pure_yolo, one after another
PureNext == CallMatchWithPureYolo \/ PureReturn

SpecPure == Init /\ [][PureNext]_vars

\* find_template_on_screen with a caller that may raise its cancel flag
CancelNext == ScreenSteps \/ RaiseCancel

SpecCancel == Init /\ [][CancelNext]_vars

\* the slots and the timer of realtime detection
ControllerNext ==
    \/ StartRealtimeDetection
    \/ StopRealtimeDetection
    \/ SetRealtimeInterval
    \/ RealtimeTimerTick
    \/ SwitchAlgorithmMode
    \/ SelectWindow
    \/ SelectScreenArea

SpecController == Init /\ [][ControllerNext]_vars

\* calls of match_with_yolo_orb with a detector that finds objects
SearchNext == CallSearchDetections \/ SearchReturn

SpecSearch == Init /\ [][SearchNext]_vars

\* calls of detect_and_compute
ExtractNext == CallDetectAndCompute \/ OrbReturn

SpecExtract == Init /\ [][ExtractNext]_vars

\* calls of match_features with one image as template and as target
SameImageNext == CallMatchFeaturesSameImage \/ FReturn

SpecSameImage == Init /\ [][SameImageNext]_vars

\* calls of find_template_in_image on targets holding the template
PlantedNext == CallMatchPlanted \/ MatchSteps \/ TMReturn

SpecPlanted == Init /\ [][PlantedNext]_vars

\* calls of find_all_matches
FindAllNext == CallFindAllUnreadable \/ CallFindAllMatches \/ AReturn

SpecFindAll == Init /\ [][FindAllNext]_vars

\* every call that gives a correlation result, one at a time
CorrelationNext ==
    \/ a_pc = "idle" /\ (CallMatchTemplate \/ ScreenSteps)
    \/ FindAllNext

SpecCorrelation == Init /\ [][CorrelationNext]_vars

\* every engine, one call at a time
Next ==
    \/ CallMatchTemplate
    \/ ScreenSteps
    \/ CallMatchFeatures
    \/ CallMatchWithYoloOrb
    \/ CallMatchInRoi
    \/ FReturn

Spec == Init /\ [][Next]_vars

----------------------------------------------------------------------------
(* Properties of the engines *)

\* the template of the running call is wider or taller than its target
Oversized ==
    /\ screenshot # <<>>
    /\ template.w > screenshot[1] \/ template.h > screenshot[2]

\* the template resized to the k-th scale is wider or taller than the target
OversizedAt(k) ==
    LET sc == Linspace(config.scale_range, config.scale_steps, k)
    IN  \/ ScaledSize(template.w, sc) > screenshot[1]
        \/ ScaledSize(template.h, sc) > screenshot[2]

MatchReturned == pc = "done" /\ entry = "_match_template"

\* C1 as stated: whenever the template is wider or taller than the target,
\* _match_template returns None, in single-scale and in multi-scale mode
C1_OversizedNeverMatches ==
    MatchReturned /\ Oversized => result = None

\* C1 amended: _match_template never raises; in single-scale mode it returns
\* None when the template is wider or taller than the target; in multi-scale
\* mode a scale at which the resized template is wider or taller than the
\* target yields nothing, so the result is None when that is so at every
\* scale, and a result that is returned has the size of a resized template
\* that fits the target
C1_OversizedAtScaleNeverMatches ==
    MatchReturned =>
        /\ ~result.raised
        /\ ~IsMultiScale(config) /\ Oversized => result = None
        /\ IsMultiScale(config)
              /\ (\A k \in 0 .. (config.scale_steps - 1) : OversizedAt(k))
              => result = None
        /\ ~result.isNone =>
              result.width <= screenshot[1] /\ result.height <= screenshot[2]

\* C1 witness: a single-scale call with a template wider than its target has
\* returned None
C1_Witness ==
    /\ MatchReturned
    /\ ~IsMultiScale(config)
    /\ template.w > screenshot[1]
    /\ result = None

ConfiguredThreshold == IF config.threshold = Absent THEN 80 ELSE config.threshold

BelowThreshold(c) == c = Absent \/ c = NaN \/ c < ConfiguredThreshold

\* C2: every result _match_template returns has confidence >= threshold; a
\* single-scale confidence below the threshold gives None, and in multi-scale
\* mode a scale whose confidence is below the threshold never becomes the
\* best result, so the outcome is None when every scale is below it
C2_AcceptedOnlyAtThreshold ==
    entry = "_match_template" =>
        /\ pc = "done" /\ ~result.isNone =>
              result.confidence # NaN /\ result.confidence >= ConfiguredThreshold
        /\ pc = "done" /\ ~IsMultiScale(config) /\ BelowThreshold(confidence) =>
              result = None
        /\ pc = "done" /\ ~IsMultiScale(config) /\ ~result.isNone =>
              result.confidence = confidence
        /\ ~best_result.isNone =>
              /\ best_result.confidence >= ConfiguredThreshold
              /\ best_result.confidence = best_confidence
        /\ pc = "multi" /\ scale_k > 0 /\ BelowThreshold(confidence)
              /\ ~best_result.isNone =>
              best_result.scale # Linspace(config.scale_range, config.scale_steps,
                                           scale_k - 1)

\* C2 witness: a result whose confidence equals the threshold has been returned
C2_Witness ==
    /\ MatchReturned
    /\ ~result.isNone
    /\ result.confidence = ConfiguredThreshold

\* a schedule is attempts separated by single sleeps
Alternates(s) ==
    \A i \in 1 .. Len(s) : s[i] = (IF i % 2 = 1 THEN "attempt" ELSE "sleep")

\* the schedule of a finished call with at most r attempts: a success ends
\* the schedule with the attempt that found it, a failure is r attempts with
\* r - 1 sleeps between them
ScheduleOf(s, res, r) ==
    /\ Alternates(s)
    /\ IF res.isNone
       THEN Len(s) = (IF r > 0 THEN 2 * r - 1 ELSE 0)
       ELSE Len(s) % 2 = 1 /\ Len(s) <= 2 * r - 1

ScreenRetries == IF config.max_retries = Absent THEN 3 ELSE config.max_retries

FeatureRetries ==
    IF f_config.is_none \/ f_config.max_retries = Absent THEN 3
    ELSE f_config.max_retries

\* C3: find_template_on_screen and match_features return the first successful
\* attempt at once; when every attempt fails they make exactly max_retries
\* attempts with a sleep between consecutive attempts and none after the
\* last, and return None without raising
C3_RetrySchedule ==
    /\ entry = "find_template_on_screen" =>
          /\ Alternates(schedule)
          /\ pc = "attempt" =>
                result.isNone /\ Len(schedule) = 2 * attempt
                /\ attempt < ScreenRetries
          /\ pc = "done" =>
                ~result.raised /\ ScheduleOf(schedule, result, ScreenRetries)
    /\ f_entry = "match_features" /\ f_pc = "done" =>
          ~f_result.raised /\ ScheduleOf(f_schedule, f_result, FeatureRetries)

\* C3 witness: a call with max_retries = 3 has failed three times, slept
\* twice, and returned None
C3_Witness ==
    /\ pc = "done"
    /\ entry = "find_template_on_screen"
    /\ ScreenRetries = 3
    /\ result = None
    /\ schedule = <<"attempt", "sleep", "attempt", "sleep", "attempt">>

\* C4 as stated: with an unreadable template, or a template larger than the
\* target, find_template_on_screen makes one attempt and does not sleep
C4_InputErrorNotRetried ==
    /\ pc = "done"
    /\ entry = "find_template_on_screen"
    /\ ScreenRetries >= 1
    /\ result.isNone
    /\ ~template.ok \/ Oversized
    => schedule = <<"attempt">>

FeatureReturned == f_pc = "done" /\ f_entry = "match_features"

ConfiguredMinMatches ==
    IF f_config.is_none \/ f_config.min_matches = Absent THEN 4
    ELSE f_config.min_matches

\* C5: a result match_features returns has num_matches >= min_matches; an
\* attempt with fewer correspondences gives None whatever the homography says
C5_MinMatchesFloor ==
    FeatureReturned =>
        /\ ~f_result.isNone => f_result.num_matches >= ConfiguredMinMatches
        /\ f_world.n < ConfiguredMinMatches => f_result = None

\* C5 witness: four correspondences, all of them inliers, under a larger
\* min_matches: None has been returned
C5_Witness ==
    /\ FeatureReturned
    /\ ConfiguredMinMatches > 4
    /\ f_world.n = 4
    /\ f_world.hom = "ok"
    /\ f_world.k = 4
    /\ f_result = None

\* C6: the confidence of a returned result is
\* 0.7 * num_inliers / num_matches + 0.3 * min(num_matches / 100, 1), the
\* first term 0 when num_matches is 0; num_inliers <= num_matches, and the
\* confidence is in [0, 1].  The confidence is a fraction c[1] / c[2], its
\* denominator a multiple of 1000 when there are correspondences, compared
\* by cross-multiplication
C6_ConfidenceFormula ==
    FeatureReturned /\ ~f_result.isNone =>
        LET n == f_result.num_matches
            k == f_result.num_inliers
            c == f_result.confidence
            capped == IF n < 100 THEN n ELSE 100
        IN  /\ 0 <= k /\ k <= n
            /\ c[2] > 0
            /\ IF n = 0 THEN c[1] = 0
               ELSE /\ c[2] % 1000 = 0
                    /\ c[1] * n = (700 * k + 3 * capped * n) * (c[2] \div 1000)
            /\ 0 <= c[1] /\ c[1] <= c[2]

\* C6 witness: more than 100 correspondences, all inliers: the confidence is 1
C6_Witness ==
    /\ FeatureReturned
    /\ ~f_result.isNone
    /\ f_result.num_matches > 100
    /\ f_result.num_inliers = f_result.num_matches
    /\ f_result.confidence[1] = f_result.confidence[2]

FeatureResultReturned ==
    /\ f_pc = "done"
    /\ f_entry \in {"match_features", "match_with_yolo_orb", "_match_in_roi"}
    /\ ~f_result.isNone

\* C7 as stated: no matcher returns a result with a null bounding box or a
\* null center
C7_ReturnedResultHasBox ==
    FeatureResultReturned =>
        f_result.bounding_box.present /\ f_result.center_point.present

\* C7 amended: every result the correlation matcher returns has confidence
\* >= threshold and a bounding box of the template's size with its center
\* inside; a result of the feature or hybrid matcher has a bounding box
\* exactly when it has a center, and then a homography with at least 4
\* inliers was estimated; without these it is returned with both null
C7_BoxOnlyWithHomography ==
    /\ pc = "done" /\ ~result.isNone =>
          /\ result.confidence >= ConfiguredThreshold
          /\ result.width >= 1 /\ result.height >= 1
          /\ result.left <= result.center_x
          /\ result.center_x <= result.left + result.width
          /\ result.top <= result.center_y
          /\ result.center_y <= result.top + result.height
    /\ FeatureResultReturned =>
          /\ f_result.bounding_box.present <=> f_result.center_point.present
          /\ f_result.bounding_box.present =>
                f_result.homography /\ f_result.num_inliers >= 4

\* C7 witness: a feature result with confidence at least 0.7 has been
\* returned with a null bounding box
C7_Witness ==
    /\ FeatureResultReturned
    /\ ~f_result.bounding_box.present
    /\ f_result.confidence[1] * 10 >= 7 * f_result.confidence[2]

\* C8 as stated: no result the feature matcher returns has confidence 0 or
\* no correspondences
C8_NoZeroConfidenceResult ==
    FeatureReturned /\ ~f_result.isNone =>
        f_result.num_matches > 0 /\ f_result.confidence[1] > 0

HybridReturned == f_pc = "done" /\ f_entry = "match_with_yolo_orb"

FallbackEnabled ==
    f_config.is_none \/ f_config.orb_fallback = Absent \/ f_config.orb_fallback # 0

\* C9: the detector returns no detections; with orb_fallback on,
\* match_with_yolo_orb returns what match_features returns for the same
\* images and the same config (None included), but for the method tag, and
\* after the same attempts
C9_FallbackEqualsFeatureMatcher ==
    HybridReturned /\ FallbackEnabled =>
        LET feature == MatchFeatures(f_world, f_config)
        IN  /\ f_result.isNone <=> feature.result.isNone
            /\ ~f_result.isNone =>
                  /\ f_result.method = "YOLO+ORB_fallback"
                  /\ [f_result EXCEPT !.method = "ORB_features"] = feature.result
            /\ f_schedule = feature.schedule

\* C9 witness: a call with config None has returned a fallback result
C9_Witness ==
    /\ HybridReturned
    /\ f_config.is_none
    /\ ~f_result.isNone
    /\ f_result.method = "YOLO+ORB_fallback"
    /\ f_result.bounding_box.present

\* the offset of the region _match_in_roi crops for the detection of the call
RoiOffset ==
    LET e == IF f_config.yolo_roi_expansion = Absent THEN 10
             ELSE f_config.yolo_roi_expansion
        dx == f_detection.x - ((f_detection.width * e) \div 100)
        dy == f_detection.y - ((f_detection.height * e) \div 100)
    IN  << IF dx > 0 THEN dx ELSE 0, IF dy > 0 THEN dy ELSE 0 >>

\* C10 as stated: the result _match_in_roi returns has its bounding box and
\* center in whole-target coordinates, the region-local ones plus the offset
\* of the region, and carries the detection's confidence
C10_RoiResultInTargetCoordinates ==
    /\ f_pc = "done"
    /\ f_entry = "_match_in_roi"
    /\ ~f_result.isNone
    /\ f_result.bounding_box.present
    => LET local == MatchFeatures(f_world, f_config).result
       IN  /\ f_result.bounding_box.left = local.bounding_box.left + RoiOffset[1]
           /\ f_result.bounding_box.top = local.bounding_box.top + RoiOffset[2]
           /\ f_result.center_point.x = local.center_point.x + RoiOffset[1]
           /\ f_result.center_point.y = local.center_point.y + RoiOffset[2]
           /\ f_result.yolo_confidence = f_detection.confidence

\* C11: the detector gives no detections, so no region search yields a
\* result: match_with_yolo_orb runs the whole-target feature matcher exactly
\* when orb_fallback is enabled and tags its result as a fallback; it returns
\* None, never an exception, when the fallback fails or is disabled
C11_FallbackExactlyWhenEnabled ==
    HybridReturned =>
        /\ ~f_result.raised
        /\ ~FallbackEnabled => f_result = None /\ f_schedule = <<>>
        /\ FallbackEnabled /\ FeatureRetries >= 1 => Len(f_schedule) >= 1
        /\ ~f_result.isNone =>
              /\ FallbackEnabled
              /\ f_result.method = "YOLO+ORB_fallback"
              /\ f_result.yolo_confidence = Absent

\* C11 witness: with orb_fallback off, a call on images the feature matcher
\* would match has returned None without an attempt
C11_Witness ==
    /\ HybridReturned
    /\ ~f_config.is_none
    /\ f_config.orb_fallback = 0
    /\ ~MatchFeatures(f_world, f_config).result.isNone
    /\ f_result = None
    /\ f_schedule = <<>>

DetectReturned ==
    /\ d_pc = "done"
    /\ d_entry \in {"detect_objects_yolo", "pure_detect_objects_yolo"}

\* the model_path of the call is missing, empty or blank
NoModelConfigured == d_model_path \in {"absent", "", "  "}

FindAllReturned == a_pc = "done" /\ a_template.ok

FindAllThreshold == IF a_threshold = Absent THEN 80 ELSE a_threshold

\* two matches lie within half a template width and half a template height
\* of each other
TooClose(m1, m2) ==
    /\ 2 * Abs(m1.left - m2.left) < a_template.w
    /\ 2 * Abs(m1.top - m2.top) < a_template.h

\* C13 as stated: find_all_matches returns at most max_matches matches, each
\* with confidence >= threshold, in non-increasing order of confidence, no
\* two of them within half a template width and height of each other
C13_FindAllGreedySuppression ==
    FindAllReturned =>
        /\ Len(a_matches) <= a_max_matches
        /\ \A i \in 1 .. Len(a_matches) :
              a_matches[i].confidence >= FindAllThreshold
        /\ \A i \in 1 .. Len(a_matches), j \in 1 .. Len(a_matches) :
              i < j => a_matches[i].confidence >= a_matches[j].confidence
        /\ \A i \in 1 .. Len(a_matches), j \in 1 .. Len(a_matches) :
              i # j => ~TooClose(a_matches[i], a_matches[j])

\* the confidence of the i-th position of the score map of the call
ConfidenceAt(i) ==
    IF a_method \in {"TM_SQDIFF", "TM_SQDIFF_NORMED"} THEN 100 - a_map[i]
    ELSE a_map[i]

\* the positions of the planted copies: where the confidence is 1.0
Planted == { i \in 1 .. NPos : ConfidenceAt(i) = 100 }

\* the copies are planted apart, and every other position at or above the
\* threshold is within half a template of a copy
PlantedApart ==
    /\ \A i \in Planted, j \in Planted :
          i # j => \/ Abs(PosAt(i).x - PosAt(j).x) >= a_template.w
                   \/ Abs(PosAt(i).y - PosAt(j).y) >= a_template.h
    /\ \A i \in (1 .. NPos) \ Planted :
          ConfidenceAt(i) >= FindAllThreshold =>
              \E j \in Planted :
                  /\ 2 * Abs(PosAt(i).x - PosAt(j).x) < a_template.w
                  /\ 2 * Abs(PosAt(i).y - PosAt(j).y) < a_template.h

RegionOffset == IF a_region = <<>> THEN <<0, 0>> ELSE <<a_region[1], a_region[2]>>

\* C14 as stated: with N copies planted apart and max_matches >= N,
\* find_all_matches returns exactly N matches, one at each planted position,
\* in non-increasing order of confidence
C14_FindAllFindsEveryCopy ==
    FindAllReturned /\ PlantedApart /\ a_max_matches >= Cardinality(Planted) =>
        /\ Len(a_matches) = Cardinality(Planted)
        /\ \A i \in Planted :
              \E k \in 1 .. Len(a_matches) :
                  /\ a_matches[k].left = PosAt(i).x + RegionOffset[1]
                  /\ a_matches[k].top = PosAt(i).y + RegionOffset[2]
        /\ \A i \in 1 .. Len(a_matches), j \in 1 .. Len(a_matches) :
              i < j => a_matches[i].confidence >= a_matches[j].confidence

\* C13 and C14 without a region argument (used to locate the divergence)
FindAllWithoutRegion ==
    a_region = <<>> => C13_FindAllGreedySuppression /\ C14_FindAllFindsEveryCopy

\* C15 as stated: for a template pasted unmodified into the target at
\* (x, y), of one colour or not, _match_template with the default
\* configuration returns a result with confidence >= 0.99 whose box is
\* (x, y, width, height) of the template
C15_PastedTemplateIsFound ==
    pc = "done" /\ planted # NoPlant /\ config = default_config =>
        /\ ~result.isNone
        /\ result.confidence >= 99
        /\ result.left = planted.at[1] /\ result.top = planted.at[2]
        /\ result.width = template.w /\ result.height = template.h

\* C15 for templates that are not of one colour (used to locate the
\* divergence)
PastedTexturedTemplateIsFound == ~planted.solid => C15_PastedTemplateIsFound

\* a second call of match_with_pure_yolo has returned, made with the inputs
\* of the call before it (same model, same detections of the network)
SameInputsTwice ==
    /\ d_pc = "done"
    /\ d_entry = "match_with_pure_yolo"
    /\ d_prev.entry = d_entry
    /\ d_prev.model_path = d_model_path
    /\ d_prev.backend = d_backend

\* C16 as stated: two runs of a matcher on the same inputs return results
\* that are equal in every field (here for match_with_pure_yolo)
C16_SameInputsSameResult == SameInputsTwice => d_result = d_prev.result

\* C16 for every field but match_time (used to locate the divergence)
SameResultApartFromMatchTime ==
    SameInputsTwice /\ ~d_result.isNone =>
        [d_result EXCEPT !.match_time = 0]
            = [d_prev.result EXCEPT !.match_time = 0]

\* C17: at every point of every sequence of calls on the shared instances
\* the default configuration dictionaries of template_matcher, orb_matcher
\* and yolo_orb_matcher are as constructed (so the loosened extraction
\* parameters are not in them) and the caller's config dictionary is as it
\* was passed
C17_NoCrossCallState ==
    /\ heap.tm_default_config = default_config
    /\ heap.orb_default_orb_config = default_orb_config
    /\ heap.orb_default_match_config = default_match_config
    /\ heap.hybrid_default_hybrid_config = default_hybrid_config
    /\ heap.caller = f_config

\* a call with a configuration of its own has returned after an attempt in
\* which the extraction found nothing and the loosened detector was built
C17_Witness ==
    /\ f_pc = "done"
    /\ f_entry \in {"match_features", "match_with_yolo_orb"}
    /\ ~f_config.is_none
    /\ f_config.min_matches # Absent
    /\ Len(f_schedule) > 0
    /\ f_world.des1 = -1

\* the homography of the call was estimated with at least 4 inliers and the
\* template corners were projected
Localized ==
    /\ f_world.n >= 4
    /\ f_world.hom = "ok"
    /\ f_world.k >= 4
    /\ f_world.proj = "ok"

\* C18: a result match_features returns has a bounding box and a center
\* exactly when a homography was estimated, has at least 4 inliers and the
\* corner projection succeeded; the box is then the envelope of the projected
\* corners and the center its midpoint, cut off to an integer; otherwise
\* both are null, with whatever confidence
C18_LocalizedExactlyWithHomography ==
    FeatureReturned /\ ~f_result.isNone =>
        LET bb == f_result.bounding_box
            cp == f_result.center_point
            env == f_world.box
        IN  /\ bb.present <=> Localized
            /\ cp.present <=> Localized
            /\ Localized =>
                  /\ bb.left = env.min_x /\ bb.right = env.max_x
                  /\ bb.top = env.min_y /\ bb.bottom = env.max_y
                  /\ bb.width = env.max_x - env.min_x
                  /\ bb.height = env.max_y - env.min_y
                  /\ Abs(2 * cp.x - (bb.left + bb.right)) <= 1
                  /\ Abs(2 * cp.y - (bb.top + bb.bottom)) <= 1
                  /\ bb.left <= cp.x /\ cp.x <= bb.right
                  /\ bb.top <= cp.y /\ cp.y <= bb.bottom

\* C18 witness: a localized result has been returned whose envelope has an
\* odd, negative sum of top and bottom
C18_Witness ==
    /\ FeatureReturned /\ ~f_result.isNone
    /\ Localized
    /\ f_result.bounding_box.top + f_result.bounding_box.bottom = -1

\* C18 second case: a result without box and center, with confidence above 0
C18_WitnessNull ==
    /\ FeatureReturned /\ ~f_result.isNone
    /\ ~Localized
    /\ ~f_result.bounding_box.present
    /\ f_result.confidence[1] > 0

\* cv2.findHomography failed on the correspondences of the call: it raised,
\* or gave neither a matrix nor a mask
EstimationFailed == f_world.n >= 4 /\ f_world.hom \in {"raises", "none"}

\* C19: when the homography estimation fails on at least min_matches
\* correspondences, match_features still returns a result from that attempt,
\* with num_inliers 0, no bounding box, no center and confidence
\* 0.3 * min(num_matches / 100, 1), and the failure causes no further attempt
C19_EstimationFailureNotFatal ==
    /\ FeatureReturned
    /\ EstimationFailed
    /\ f_world.n >= ConfiguredMinMatches
    /\ Len(f_schedule) > 0
    => /\ ~f_result.isNone
       /\ f_result.num_inliers = 0
       /\ ~f_result.bounding_box.present
       /\ ~f_result.center_point.present
       /\ f_result.confidence[1] * 1000
             = 3 * Min(f_world.n, MatchCap) * f_result.confidence[2]
       /\ f_schedule = <<"attempt">>

\* C19 witness: the estimation raised on more than MatchCap correspondences
\* and a result has been returned
C19_Witness ==
    /\ FeatureReturned
    /\ f_world.hom = "raises"
    /\ f_world.n > MatchCap
    /\ f_world.n >= ConfiguredMinMatches
    /\ ~f_result.isNone

\* match_features has returned from a call with one image as template and
\* as target
SameImageReturned ==
    f_pc = "done" /\ f_entry = "match_features" /\ f_image = TargetSize

\* the bounding box of the result covers the whole image
CoversImage ==
    /\ f_result.bounding_box.present
    /\ f_result.bounding_box.left <= 0
    /\ f_result.bounding_box.top <= 0
    /\ f_result.bounding_box.right >= f_image[1]
    /\ f_result.bounding_box.bottom >= f_image[2]

C21_CancelSuppressesNextRetry ==
    [][cancel /\ entry = "find_template_on_screen"
          => ~(pc = "after" /\ pc' = "attempt")]_vars

\* C21, first half (used to locate the divergence): the steps of an attempt
\* in progress are the same with the flag raised as without it
AttemptRunsToCompletion ==
    cancel /\ pc \in {"match", "multi"} =>
        ENABLED (MatchSingle \/ MatchMulti \/ ScaleResizeRaises \/ ScaleSkipped
                 \/ ScaleEvaluated \/ MultiReturn)

PureMatchReturned == d_pc = "done" /\ d_entry = "match_with_pure_yolo"

\* the list the detector of the call returns: empty without a model, the
\* findings of the network with one
DetectorOutput == IF NoModelConfigured THEN <<>> ELSE d_backend

\* C22: match_with_pure_yolo returns None exactly when the detector returns
\* no detection; otherwise the result carries the box and confidence of the
\* first detection of greatest confidence, all detections as the detector
\* returned them, and their number as detection_count
C22_PrimaryIsFirstBestDetection ==
    PureMatchReturned =>
        /\ ~d_result.raised
        /\ d_result.isNone <=> DetectorOutput = <<>>
        /\ ~d_result.isNone =>
              /\ d_result.all_detections = DetectorOutput
              /\ d_result.detection_count = Len(DetectorOutput)
              /\ \E i \in 1 .. Len(DetectorOutput) :
                    /\ \A j \in 1 .. Len(DetectorOutput) :
                          /\ DetectorOutput[j].confidence
                                <= DetectorOutput[i].confidence
                          /\ j < i => DetectorOutput[j].confidence
                                         < DetectorOutput[i].confidence
                    /\ d_result.x = DetectorOutput[i].x
                    /\ d_result.y = DetectorOutput[i].y
                    /\ d_result.width = DetectorOutput[i].width
                    /\ d_result.height = DetectorOutput[i].height
                    /\ d_result.confidence = DetectorOutput[i].confidence

\* C22 witness: two detections of equal confidence at different places; the
\* first is the primary result and both are returned
C22_Witness ==
    /\ PureMatchReturned
    /\ ~d_result.isNone
    /\ Len(d_backend) = 2
    /\ d_backend[1].confidence = d_backend[2].confidence
    /\ d_backend[1].x # d_backend[2].x
    /\ d_result.x = d_backend[1].x
    /\ d_result.detection_count = 2

\* _match_template has returned from its multi-scale branch after trying
\* every scale
MultiScaleReturned ==
    /\ pc = "done"
    /\ entry = "_match_template"
    /\ IsMultiScale(config)
    /\ scale_k >= config.scale_steps

\* C23 as stated: _multi_scale_match returns a result exactly when some
\* evaluated scale gave a confidence >= threshold; its confidence is then
\* the greatest such confidence and its scale the first scale that gave it
C23_MultiScaleKeepsGlobalBest ==
    MultiScaleReturned =>
        /\ result.isNone <=> seen.at = -1
        /\ ~result.isNone =>
              /\ result.confidence = seen.max
              /\ result.scale = Linspace(config.scale_range,
                                         config.scale_steps, seen.at)

\* C23 for confidences above 0 (used to locate the divergence)
MultiScaleKeepsPositiveBest ==
    MultiScaleReturned /\ (seen.at = -1 \/ seen.max > 0) =>
        C23_MultiScaleKeepsGlobalBest

\* detect_and_compute has returned after its first detector found nothing
RetriedExtraction == orb_call.pc = "done" /\ Len(orb_call.used) = 2

\* C24 as stated: after zero keypoints detect_and_compute extracts exactly
\* once more, and for every configuration the second detector's FAST
\* threshold is not higher and its maximum feature count not lower than the
\* first detector's
C24_RetryIsLooser ==
    /\ orb_call.pc = "done" => Len(orb_call.used) \in {1, 2}
    /\ RetriedExtraction =>
          /\ orb_call.used[2].fastThreshold <= orb_call.used[1].fastThreshold
          /\ orb_call.used[2].nfeatures >= orb_call.used[1].nfeatures

\* C24 for callers that set no ORB parameter (used to locate the divergence)
DefaultRetryIsLooser ==
    RetriedExtraction /\ orb_call.orb_config \in {NoOrbConfig, AttemptOrbConfig} =>
        /\ orb_call.used[2] = [nfeatures |-> 2000, edgeThreshold |-> 10,
                               fastThreshold |-> 5]
        /\ C24_RetryIsLooser

\* an attempt of the finished match_features call computed correspondences
MatchingReached ==
    /\ f_pc = "done" /\ f_entry = "match_features"
    /\ Len(f_schedule) > 0
    /\ f_world.des1 >= 4 /\ f_world.des2 >= 4
    /\ Strategy(MatchConfig(f_config)) # "invalid"

\* C25 as stated: for every combination of use_cross_check and
\* use_ratio_test the correspondences of an attempt come from the mutual
\* cross-check or from the ratio test, one of the two
C25_OneOfTwoStrategies ==
    MatchingReached =>
        (CrossChecks(MatchConfig(f_config)) \/ RatioTests(MatchConfig(f_config)))

\* C25 amended: an attempt applies at most one of the two strategies, never
\* both. The brute-force matcher cross-checks when use_cross_check is set,
\* applies the ratio test when only use_ratio_test is set, and with both
\* unset (the default) matches every template descriptor to its nearest
\* neighbour with neither; the FLANN matcher applies neither
C25_AtMostOneStrategy ==
    MatchingReached =>
        LET cfg == MatchConfig(f_config)
            cc == Truthy(cfg.use_cross_check)
            rt == Truthy(cfg.use_ratio_test)
            bf == GetType(cfg.matcher_type, "BF") = "BF"
        IN  /\ ~(CrossChecks(cfg) /\ RatioTests(cfg))
            /\ bf /\ cc => CrossChecks(cfg) /\ Strategy(cfg) = "cross_check"
            /\ bf /\ ~cc /\ rt => RatioTests(cfg) /\ Strategy(cfg) = "ratio_test"
            /\ bf /\ ~cc /\ ~rt =>
                  /\ ~CrossChecks(cfg) /\ ~RatioTests(cfg)
                  /\ Strategy(cfg) = "plain"
                  /\ f_world.n = f_world.des1
            /\ ~bf => ~CrossChecks(cfg) /\ ~RatioTests(cfg)

\* an attempt under the default flags, both unset, computed correspondences
C25_Witness ==
    /\ MatchingReached
    /\ ~Truthy(MatchConfig(f_config).use_cross_check)
    /\ ~Truthy(MatchConfig(f_config).use_ratio_test)
    /\ GetType(MatchConfig(f_config).matcher_type, "BF") = "BF"
    /\ f_world.n = f_world.des1

\* _match_in_roi has run for a detection whose box lies within the target
RoiOfBoxInTarget ==
    /\ f_pc = "done" /\ f_entry = "_match_in_roi"
    /\ f_detection.x >= 0 /\ f_detection.y >= 0
    /\ f_detection.x + f_detection.width <= f_image[1]
    /\ f_detection.y + f_detection.height <= f_image[2]

\* the region lies within the target and contains the detection box
RoiWithinTargetAroundBox ==
    RoiOfBoxInTarget =>
        LET roi == Roi(f_detection, f_image, f_config)
        IN  /\ 0 <= roi[1] /\ 0 <= roi[2]
            /\ roi[1] + roi[3] <= f_image[1]
            /\ roi[2] + roi[4] <= f_image[2]
            /\ roi[1] <= f_detection.x /\ roi[2] <= f_detection.y
            /\ roi[1] + roi[3] >= f_detection.x + f_detection.width
            /\ roi[2] + roi[4] >= f_detection.y + f_detection.height

\* C26 as stated: for a detection box within the target the region is the
\* box expanded by roi_expansion times its width and height on each side,
\* clamped: it lies within the target, contains the box, and reaches at
\* most the margin beyond the box on each of the four sides
C26_RoiIsClampedExpansion ==
    /\ RoiWithinTargetAroundBox
    /\ RoiOfBoxInTarget =>
          LET roi == Roi(f_detection, f_image, f_config)
              expansion == Get(f_config.yolo_roi_expansion, 10)
              expand_w == (f_detection.width * expansion) \div 100
              expand_h == (f_detection.height * expansion) \div 100
          IN  /\ f_detection.x - roi[1] <= expand_w
              /\ f_detection.y - roi[2] <= expand_h
              /\ (roi[1] + roi[3]) - (f_detection.x + f_detection.width) <= expand_w
              /\ (roi[2] + roi[4]) - (f_detection.y + f_detection.height) <= expand_h

\* match_with_yolo_orb has returned the result of a region
RoiResultReturned ==
    /\ f_pc = "done" /\ roi_results # <<>>
    /\ ~f_result.isNone /\ f_result.method = "YOLO+ORB"

ZeroConfidenceRoiResultsDropped ==
    /\ f_pc = "done" /\ roi_results # <<>>
    /\ \E i \in 1 .. Len(roi_results) : ~roi_results[i].result.isNone
    /\ ~RoiResultReturned

\* C28 as stated: realtime detection is active only while the algorithm
\* mode is pure YOLO and the selected region has a positive width and
\* height, whatever slots are called
C28_ActiveOnlyInPureYoloWithRegion ==
    controller.realtime_detection_active =>
        /\ controller.algorithm_mode = PureYoloMode
        /\ ~NoRegionSelected(controller)

\* startRealtimeDetection turns the flag on only in pure YOLO mode with a
\* region selected (used to locate the divergence)
StartRefusesOtherwise ==
    [][~controller.realtime_detection_active /\ controller'.realtime_detection_active
          => /\ controller.algorithm_mode = PureYoloMode
             /\ ~NoRegionSelected(controller)
             /\ controller' = StartRealtime(Entered(controller))]_vars

\* C29: between the slots and timer ticks the realtime timer exists exactly
\* when the flag is true and then it is the one running timer, a slot emits
\* realtimeDetectionStateChanged exactly when it changed the flag, with the
\* new value, and the stored interval is within 100 .. 5000 ms
C29_TimerIffActive ==
    /\ controller.realtime_timer # "None" <=> controller.realtime_detection_active
    /\ controller.running_timers =
           IF controller.realtime_detection_active THEN 1 ELSE 0
    /\ controller.emitted # "nothing" <=>
           controller.was_active # controller.realtime_detection_active
    /\ controller.emitted = "True" => controller.realtime_detection_active
    /\ controller.emitted = "False" => ~controller.realtime_detection_active
    /\ controller.realtime_interval \in MinInterval .. MaxInterval
    /\ controller.realtime_detection_active =>
           controller.timer_interval = controller.realtime_interval

\* detection is running with an interval that was clamped from above, after
\* a slot that changed nothing
C29_Witness ==
    /\ controller.realtime_detection_active
    /\ controller.realtime_interval = MaxInterval
    /\ controller.timer_interval = MaxInterval
    /\ controller.was_active /\ controller.emitted = "nothing"

\* the centre of a correlation result r is its corner plus half its size,
\* rounded down, and the corner lies in the capture placed at origin
CentredAt(r, origin, capture_w, capture_h) ==
    /\ r.center_x = r.left + r.width \div 2
    /\ r.center_y = r.top + r.height \div 2
    /\ r.left - origin[1] \in 0 .. (capture_w - r.width)
    /\ r.top - origin[2] \in 0 .. (capture_h - r.height)

\* C30: every result of _match_template, single- or multi-scale, of
\* find_template_on_screen and of find_all_matches has the width and height
\* of the scaled template and its centre at left + width // 2,
\* top + height // 2; with a region, corner and centre are shifted by the
\* origin of the region
C30_CenterIsCornerPlusHalfSize ==
    /\ pc = "done" /\ ~result.isNone =>
          /\ result.width = ScaledSize(template.w, result.scale)
          /\ result.height = ScaledSize(template.h, result.scale)
          /\ result.region = (IF entry = "find_template_on_screen"
                              THEN region ELSE <<>>)
          /\ CentredAt(result, OffsetOf(result.region),
                       screenshot[1], screenshot[2])
    /\ a_pc = "done" =>
          \A i \in 1 .. Len(a_matches) :
              /\ a_matches[i].width = a_template.w
              /\ a_matches[i].height = a_template.h
              /\ a_matches[i].region = a_region
              /\ a_matches[i].center_x = a_matches[i].left + a_template.w \div 2
              /\ a_matches[i].center_y = a_matches[i].top + a_template.h \div 2
              /\ a_matches[i].left >= OffsetOf(a_region)[1]
              /\ a_matches[i].top >= OffsetOf(a_region)[2]

\* find_template_on_screen returned a multi-scale result of odd width found
\* away from the corner of a region away from the screen's corner
C30_Witness ==
    /\ pc = "done" /\ entry = "find_template_on_screen" /\ ~result.isNone
    /\ IsMultiScale(config) /\ result.scale # <<1, 1>>
    /\ region # <<>> /\ region[1] > 0
    /\ result.left > region[1]
    /\ result.width % 2 = 1

====
